---------------------------- MODULE Spec2Model ----------------------------
(***************************************************************************)
(* A model of django-agenda's scheduling store: availabilities, their      *)
(* materialised occurrences, the time slots generated from them and the    *)
(* bookings that reserve slots (src/django_agenda/models.py).              *)
(*                                                                         *)
(* Instants are integers; one unit is 30 minutes.  A slot is a record      *)
(*   [id, subj, start, end, busy, pf, aos, bks]                            *)
(* where pf is the id of the slot it is padding_for (0: none), aos the set *)
(* of contributing occurrences (the many-to-many relation) and bks the set *)
(* of bookings linked to it.  An occurrence is [av, start, end]: the code  *)
(* keys the occurrences of one availability by (start, end).               *)
(*                                                                         *)
(* Queries without an ORDER BY are read in primary-key order; queries      *)
(* ordered by start break ties by primary key.  Primary keys grow within   *)
(* an operation and are compacted (order kept by start, end, key) when it  *)
(* completes: no key is held across operations by the code.                *)
(***************************************************************************)
EXTENDS Integers, Sequences, FiniteSets, TLC

VARIABLES
    avails,     \* availability id -> its rule [starts, dur] (NoRule: no such row)
    occs,       \* the AvailabilityOccurrence rows
    slots,      \* the TimeSlot rows
    bookings,   \* booking id -> the booking object's fields
    last        \* what the last operation was and how it ended

vars == <<avails, occs, slots, bookings, last>>

-----------------------------------------------------------------------------
(* Bounds of the model *)

MaxTime == 6
MaxPad == 1

(* Program constants *)

DURATION == 2

NoSlot == 0

-----------------------------------------------------------------------------
(* Subjects: the owner of an availability or booking is the tens digit of  *)
(* its identifier.                                                         *)

SubjectOf(x) == x \div 10

Min(a, b) == IF a < b THEN a ELSE b
Max(a, b) == IF a > b THEN a ELSE b

-----------------------------------------------------------------------------
(* AbstractTimeSpan *)

is_real(s) == s.start < s.end

expanded(s, o) == [start |-> Min(s.start, o.start), end |-> Max(s.end, o.end)]

time_equals(s, o) == s.start = o.start /\ s.end = o.end

contains(s, o) == o.start >= s.start /\ o.end <= s.end

connects(s, o) == o.start <= s.end \/ o.end >= s.start

overlaps(s, o) == o.start < s.end /\ o.end > s.start

TimeSpan(a, b) == [start |-> a, end |-> b]

PaddedTimeSpan(a, b, p) ==
    [start |-> a, end |-> b, padded_start |-> a - p, padded_end |-> b + p]

-----------------------------------------------------------------------------
(* The store *)

TimeSlot(i, subj, a, b, busy, pf) ==
    [id |-> i, subj |-> subj, start |-> a, end |-> b, busy |-> busy,
     pf |-> pf, aos |-> {}, bks |-> {}]

SlotIds(S) == {s.id : s \in S}

MaxId(S) == IF S = {} THEN 0 ELSE CHOOSE i \in SlotIds(S) : \A j \in SlotIds(S) : j <= i

(* A store in the middle of an operation: the rows and the next key.  *)
Store(S) == [slots |-> S, nid |-> MaxId(S) + 1]

SlotById(S, i) == CHOOSE s \in S : s.id = i

(* order_by('start'), ties by primary key *)
StartBefore(x, y) == x.start < y.start \/ (x.start = y.start /\ x.id <= y.id)

RECURSIVE SortByStart(_)
SortByStart(S) ==
    IF S = {} THEN <<>>
    ELSE LET m == CHOOSE x \in S : \A y \in S : StartBefore(x, y)
         IN <<m>> \o SortByStart(S \ {m})

RECURSIVE SortById(_)
SortById(S) ==
    IF S = {} THEN <<>>
    ELSE LET m == CHOOSE x \in S : \A y \in S : x.id <= y.id
         IN <<m>> \o SortById(S \ {m})

(* Occurrences in primary-key order: by start, end and availability.  *)
OccBefore(x, y) ==
    \/ x.start < y.start
    \/ x.start = y.start /\ x.end < y.end
    \/ x.start = y.start /\ x.end = y.end /\ x.av <= y.av

RECURSIVE SortOccs(_)
SortOccs(O) ==
    IF O = {} THEN <<>>
    ELSE LET m == CHOOSE x \in O : \A y \in O : OccBefore(x, y)
         IN <<m>> \o SortOccs(O \ {m})

(* QuerySet.delete() on slots: padding_for and the relation rows cascade.  *)
RECURSIVE Cascade(_, _)
Cascade(S, ids) ==
    LET more == {s.id : s \in {x \in S : x.pf \in ids}} \ ids
    IN IF more = {} THEN ids ELSE Cascade(S, ids \cup more)

DeleteSlots(S, ids) == {s \in S : s.id \notin Cascade(S, ids)}

(* Model.save() of a loaded slot object: its columns are written to its    *)
(* row; a row that is gone is inserted again (without relation rows).      *)
SaveSlot(S, obj) ==
    IF obj.id \in SlotIds(S)
    THEN {IF s.id = obj.id
          THEN [s EXCEPT !.start = obj.start, !.end = obj.end,
                         !.busy = obj.busy, !.pf = obj.pf]
          ELSE s : s \in S}
    ELSE S \cup {[obj EXCEPT !.aos = {}, !.bks = {}]}

(* bulk_create of rows of the slot-occurrence relation *)
AddRels(S, rels) ==
    {[s EXCEPT !.aos = @ \cup {r[1] : r \in {q \in rels : q[2] = s.id}}] : s \in S}

(* The keys are compacted when an operation completes.  *)
RECURSIVE RankOf(_, _)
RankOf(seq, i) == IF seq[1].id = i THEN 1 ELSE 1 + RankOf(Tail(seq), i)

SlotBefore(x, y) ==
    \/ x.start < y.start
    \/ x.start = y.start /\ x.end < y.end
    \/ x.start = y.start /\ x.end = y.end /\ x.id <= y.id

RECURSIVE SortSlots(_)
SortSlots(S) ==
    IF S = {} THEN <<>>
    ELSE LET m == CHOOSE x \in S : \A y \in S : SlotBefore(x, y)
         IN <<m>> \o SortSlots(S \ {m})

Compact(S) ==
    LET seq == SortSlots(S)
        nid(i) == IF i = NoSlot THEN NoSlot ELSE RankOf(seq, i)
    IN {[s EXCEPT !.id = nid(s.id), !.pf = nid(s.pf)] : s \in S}

-----------------------------------------------------------------------------
(* Availability *)

NoRule == [starts |-> {}, dur |-> 0]

(* get_recurrences: the rule's starts inside the window, both ends         *)
(* inclusive, each paired with start + duration.                           *)
get_recurrences(a, rule, w) ==
    {[av |-> a, start |-> s, end |-> s + rule.dur] :
        s \in {x \in rule.starts : w.start <= x /\ x <= w.end}}

-----------------------------------------------------------------------------
(* AvailabilityOccurrence *)

(* span.expanded(slot) over each slot of a list *)
RECURSIVE ExpandAll(_, _)
ExpandAll(span, seq) ==
    IF seq = <<>> THEN span ELSE ExpandAll(expanded(span, Head(seq)), Tail(seq))

(* _maybe_make_slots that makes a new slot whatever slots there are to      *)
(* merge.                                                                  *)
_maybe_make_slots_always_new(st, o, span, merge_slots) ==
    [st |-> [slots |-> st.slots \cup
                {TimeSlot(st.nid, SubjectOf(o.av), span.start, span.end,
                          FALSE, NoSlot)},
             nid |-> st.nid + 1],
     rels |-> {<<o, st.nid>>},
     del |-> {}]

(* _maybe_make_slots: a new slot for the span, or the first of the         *)
(* merge slots grown to the bounding span and the others marked for        *)
(* deletion.  Returns the store, the relation rows to create and the ids   *)
(* to delete.                                                              *)
_maybe_make_slots(st, o, span, merge_slots) ==
    IF Len(merge_slots) < 1
    THEN [st |-> [slots |-> st.slots \cup
                      {TimeSlot(st.nid, SubjectOf(o.av), span.start, span.end,
                                FALSE, NoSlot)},
                  nid |-> st.nid + 1],
          rels |-> {<<o, st.nid>>},
          del |-> {}]
    ELSE LET first == merge_slots[1]
             rest == {merge_slots[i] : i \in 2..Len(merge_slots)}
             new_span == ExpandAll(span, merge_slots)
             all_ao_ids == ({o} \cup UNION {s.aos : s \in rest}) \ first.aos
         IN [st |-> [st EXCEPT !.slots =
                        SaveSlot(st.slots, [first EXCEPT !.start = new_span.start,
                                                         !.end = new_span.end])],
             rels |-> {<<ao, first.id>> : ao \in all_ao_ids},
             del |-> {s.id : s \in rest}]

(* The sweep of regen over the extant slots, in start order.  *)
RECURSIVE RegenLoop(_, _, _, _, _, _, _, _)
RegenLoop(st, o, extant, i, span_start, merge_slots, rels, del) ==
    IF i > Len(extant)
    THEN LET span == TimeSpan(span_start, o.end)
             r == IF is_real(span)
                  THEN _maybe_make_slots(st, o, span, merge_slots)
                  ELSE [st |-> st, rels |-> {}, del |-> {}]
         IN [r.st EXCEPT !.slots =
                AddRels(DeleteSlots(r.st.slots, del \cup r.del), rels \cup r.rels)]
    ELSE LET ex_slot == extant[i] IN
         IF ex_slot.busy \/ ex_slot.bks # {}
         THEN LET span == TimeSpan(span_start, ex_slot.start)
                  r == IF is_real(span)
                       THEN _maybe_make_slots(st, o, span, merge_slots)
                       ELSE [st |-> st, rels |-> {}, del |-> {}]
              IN RegenLoop(r.st, o, extant, i + 1, ex_slot.end, <<>>,
                           rels \cup r.rels, del \cup r.del)
         ELSE RegenLoop(st, o, extant, i + 1, span_start,
                        Append(merge_slots, ex_slot), rels, del)

(* regen: the surplus query asks for start > end of the occurrence and     *)
(* end < its start at once.                                                *)
SurplusSlots(S, o) ==
    {s \in S : o \in s.aos /\ s.start > o.end /\ s.end < o.start}

(* The extant query with strict comparisons: a slot that only touches the   *)
(* occurrence is not loaded.                                                *)
ExtantSlotsStrict(S, o) ==
    {s \in S : s.end > o.start /\ s.start < o.end /\ s.subj = SubjectOf(o.av)}

(* The extant query without the subject columns *)
ExtantSlotsAnySubject(S, o) ==
    {s \in S : s.end >= o.start /\ s.start <= o.end}

ExtantSlots(S, o) ==
    {s \in S : s.end >= o.start /\ s.start <= o.end /\ s.subj = SubjectOf(o.av)}

RECURSIVE RegenAll(_, _, _)
RECURSIVE disconnect_slots(_, _, _)

regen(st, o) ==
    LET st1 == disconnect_slots(st, o, SlotIds(SurplusSlots(st.slots, o)))
    IN RegenLoop(st1, o, SortByStart(ExtantSlots(st1.slots, o)), 1, o.start,
                 <<>>, {}, {})

(* regen of each occurrence of a list, in order *)
RegenAll(st, os, i) ==
    IF i > Len(os) THEN st ELSE RegenAll(regen(st, os[i]), os, i + 1)

(* disconnect_slots: the other occurrences that feed the slots are         *)
(* regenerated once the slots are deleted.                                 *)
disconnect_slots(st, o, slot_ids) ==
    LET regen_list == UNION {s.aos : s \in {x \in st.slots : x.id \in slot_ids}}
                        \ {o}
        st1 == [st EXCEPT !.slots = DeleteSlots(st.slots, slot_ids)]
    IN RegenAll(st1, SortOccs(regen_list), 1)

predelete(st, o) ==
    disconnect_slots(st, o, {s.id : s \in {x \in st.slots : o \in x.aos}})

(* Deleting the occurrence row: its relation rows go with it.  *)
DropOccurrence(S, o) == {[s EXCEPT !.aos = @ \ {o}] : s \in S}

(* The new occurrences of a reconcile, in the order the rule yields them: *)
(* the post-save hook and recreate_occurrences each call regen.           *)
RECURSIVE CreateOccs(_, _, _)
CreateOccs(st, os, i) ==
    IF i > Len(os) THEN st
    ELSE CreateOccs(regen(regen(st, os[i]), os[i]), os, i + 1)

(* The stale occurrences: predelete, then delete(), whose pre-delete hook  *)
(* calls predelete again before the row goes.                              *)
RECURSIVE DeleteOccs(_, _, _)
DeleteOccs(st, os, i) ==
    IF i > Len(os) THEN st
    ELSE LET st1 == predelete(predelete(st, os[i]), os[i])
         IN DeleteOccs([st1 EXCEPT !.slots = DropOccurrence(@, os[i])], os, i + 1)

(* Availability.delete(): the pre-delete hook of every occurrence, then    *)
(* the rows.                                                               *)
RECURSIVE PredeleteAll(_, _, _)
PredeleteAll(st, os, i) ==
    IF i > Len(os) THEN st ELSE PredeleteAll(predelete(st, os[i]), os, i + 1)

RECURSIVE DropAll(_, _)
DropAll(S, O) ==
    IF O = {} THEN S
    ELSE LET o == CHOOSE x \in O : TRUE IN DropAll(DropOccurrence(S, o), O \ {o})

(* recreate_occurrences without the matching of existing occurrences:      *)
(* every pair of the window is created and every existing one deleted.     *)
recreate_occurrences_unmatched(S, O, a, rule, w) ==
    LET existing == {o \in O : o.av = a}
        fresh == get_recurrences(a, rule, w)
        st1 == DeleteOccs(Store(S), SortOccs(existing), 1)
        st2 == CreateOccs(st1, SortOccs(fresh), 1)
    IN [slots |-> st2.slots, occs |-> (O \ existing) \cup fresh,
        created |-> fresh, deleted |-> existing]

(* recreate_occurrences that leaves the occurrences the rule no longer     *)
(* yields.                                                                 *)
recreate_occurrences_keep_stale(S, O, a, rule, w) ==
    LET existing == {o \in O : o.av = a}
        new == get_recurrences(a, rule, w) \ existing
        st1 == CreateOccs(Store(S), SortOccs(new), 1)
    IN [slots |-> st1.slots, occs |-> O \cup new,
        created |-> new, deleted |-> {}]

(* recreate_occurrences on the store: the slots and occurrences after.  *)
recreate_occurrences(S, O, a, rule, w) ==
    LET existing == {o \in O : o.av = a}
        fresh == get_recurrences(a, rule, w)
        new == fresh \ existing
        stale == existing \ fresh
        st1 == CreateOccs(Store(S), SortOccs(new), 1)
        st2 == DeleteOccs(st1, SortOccs(stale), 1)
    IN [slots |-> st2.slots, occs |-> (O \cup new) \ stale,
        created |-> new, deleted |-> stale]

-----------------------------------------------------------------------------
(* TimeSlot *)

avoid_span(slot, span) ==
    LET s1 == IF slot.start <= span.end THEN [slot EXCEPT !.start = span.end] ELSE slot
    IN IF s1.end >= span.start THEN [s1 EXCEPT !.end = span.start] ELSE s1

-----------------------------------------------------------------------------
(* AbstractBooking.  A booking row is [saved, state, times, padding]:      *)
(* times is the list of its non-null requested times, in field order.      *)
(* A save is run under a policy [busy, unscheduled, overlapping, dup]: the *)
(* answers of _is_booked_slot_busy, _book_unscheduled, _book_overlapping   *)
(* and is_duplicate for the acting party.                                  *)

STATE_UNCONFIRMED == "UNC"
STATE_CONFIRMED == "CNF"
STATE_DECLINED == "DCL"
STATE_COMPLETED == "CMP"
STATE_CANCELED == "CAN"
STATE_EXPIRED == "EXP"
STATE_MISSED == "MIS"

STATES == {STATE_UNCONFIRMED, STATE_DECLINED, STATE_EXPIRED, STATE_CONFIRMED,
           STATE_COMPLETED, STATE_CANCELED, STATE_MISSED}

RESERVED_STATES == {STATE_UNCONFIRMED, STATE_CONFIRMED, STATE_COMPLETED,
                    STATE_MISSED}

(* get_reserved_spans of the test application's Booking *)
get_reserved_spans(bk) ==
    IF bk.state \in RESERVED_STATES
    THEN [i \in 1..Len(bk.times) |-> TimeSpan(bk.times[i], bk.times[i] + DURATION)]
    ELSE <<>>

(* The slots linked to a booking, as its time_slots relation reads them.  *)
time_slots(S, b) == SortById({s \in S : b \in s.bks})

(* A stable sort by start of a list of spans or slots *)
RECURSIVE InsertByStart(_, _)
InsertByStart(seq, x) ==
    IF seq = <<>> THEN <<x>>
    ELSE IF x.start < Head(seq).start THEN <<x>> \o seq
    ELSE <<Head(seq)>> \o InsertByStart(Tail(seq), x)

RECURSIVE start_sorted(_)
start_sorted(seq) ==
    IF seq = <<>> THEN <<>>
    ELSE InsertByStart(start_sorted(SubSeq(seq, 1, Len(seq) - 1)), seq[Len(seq)])

(* slot_diff: the spans to add and the linked slots to release.  The       *)
(* linked slots are keyed by (start, end): of two with one key the later   *)
(* stands.                                                                 *)
RECURSIVE KeyedSlots(_, _)
KeyedSlots(seq, acc) ==
    IF seq = <<>> THEN acc
    ELSE LET x == Head(seq)
             hit == {i \in 1..Len(acc) : time_equals(acc[i], x)}
         IN KeyedSlots(Tail(seq),
                IF hit = {} THEN Append(acc, x)
                ELSE [i \in 1..Len(acc) |-> IF i \in hit THEN x ELSE acc[i]])

RemoveKey(seq, span) ==
    LET keep == {i \in 1..Len(seq) : ~time_equals(seq[i], span)}
        F[i \in 0..Len(seq)] ==
            IF i = 0 THEN <<>>
            ELSE IF i \in keep THEN Append(F[i - 1], seq[i]) ELSE F[i - 1]
    IN F[Len(seq)]

RECURSIVE DiffLoop(_, _, _, _, _)
DiffLoop(spans, i, padding, slot_times, add_times) ==
    IF i > Len(spans) THEN [add |-> add_times, rm |-> slot_times]
    ELSE IF \E j \in 1..Len(slot_times) : time_equals(slot_times[j], spans[i])
    THEN DiffLoop(spans, i + 1, padding, RemoveKey(slot_times, spans[i]), add_times)
    ELSE DiffLoop(spans, i + 1, padding, slot_times,
                  Append(add_times,
                         PaddedTimeSpan(spans[i].start, spans[i].end, padding)))

slot_diff(S, b, bk, was_saved) ==
    DiffLoop(get_reserved_spans(bk), 1, bk.padding,
             IF was_saved THEN KeyedSlots(time_slots(S, b), <<>>) ELSE <<>>,
             <<>>)

(* _disconnect_slots: the booking's links to the slots are removed.  *)
_disconnect_slots(S, b, ids) ==
    {IF s.id \in ids THEN [s EXCEPT !.bks = @ \ {b}] ELSE s : s \in S}

(* _connect_slots: the booking is linked to the slots.  *)
_connect_slots(S, b, ids) ==
    {IF s.id \in ids THEN [s EXCEPT !.bks = @ \cup {b}] ELSE s : s \in S}

(* clear_slots without the regeneration of the occurrences *)
clear_slots_only(st, O, b, rm_slots) ==
    LET rm_ids == {rm_slots[i].id : i \in 1..Len(rm_slots)}
        S1 == _disconnect_slots(st.slots, b, rm_ids)
        gone == {s \in S1 : s.id \in rm_ids /\ s.bks = {}}
    IN [st EXCEPT !.slots = DeleteSlots(S1, {s.id : s \in gone})]

(* clear_slots: released slots that no booking holds are deleted and the   *)
(* occurrences that touch them regenerated; with nothing deleted every     *)
(* occurrence of the subject is regenerated.                               *)
clear_slots(st, O, b, rm_slots) ==
    LET rm_ids == {rm_slots[i].id : i \in 1..Len(rm_slots)}
        S1 == _disconnect_slots(st.slots, b, rm_ids)
        gone == {s \in S1 : s.id \in rm_ids /\ s.bks = {}}
        changed_times == {TimeSpan(s.start, s.end) : s \in gone}
        S2 == DeleteSlots(S1, {s.id : s \in gone})
        mine == {o \in O : SubjectOf(o.av) = SubjectOf(b)}
        regen_query ==
            IF changed_times = {} THEN mine
            ELSE {o \in mine : \E sp \in changed_times :
                                   o.start <= sp.end /\ o.end >= sp.start}
    IN RegenAll([st EXCEPT !.slots = S2], SortOccs(regen_query), 1)

(* find_slot_for_span: the sweep over the slots that overlap the padded    *)
(* span.                                                                   *)
RECURSIVE FindLoop(_, _, _, _, _, _)
FindLoop(sl, i, span, pol, free_slots, busy_slots) ==
    IF i > Len(sl)
    THEN [kind |-> "end", free |-> free_slots, busy |-> busy_slots]
    ELSE LET slot == sl[i] IN
         IF overlaps(span, slot)
         THEN IF slot.busy
              THEN FindLoop(sl, i + 1, span, pol, free_slots, Append(busy_slots, slot))
              ELSE IF slot.bks # {} /\ time_equals(slot, span)
              THEN IF pol.dup
                   THEN [kind |-> "raise", err |-> "InvalidState"]
                   ELSE [kind |-> "return", found |-> <<slot>>]
              ELSE IF slot.bks # {} /\ ~pol.overlapping
              THEN [kind |-> "raise", err |-> "OverlappingTimeError"]
              ELSE IF contains(slot, span)
              THEN [kind |-> "return", found |-> <<slot>>]
              ELSE FindLoop(sl, i + 1, span, pol, Append(free_slots, slot), busy_slots)
         ELSE IF slot.bks # {}
              THEN [kind |-> "raise", err |-> "OverlappingTimeError"]
              ELSE FindLoop(sl, i + 1, span, pol, free_slots, busy_slots)

(* The slots of unscheduled time are pushed out of the span's way.  *)
RECURSIVE PushSlots(_, _, _, _)
PushSlots(S, sl, i, span) ==
    IF i > Len(sl) THEN S
    ELSE IF contains(span, sl[i])
    THEN PushSlots(DeleteSlots(S, {sl[i].id}), sl, i + 1, span)
    ELSE PushSlots(SaveSlot(S, avoid_span(sl[i], span)), sl, i + 1, span)

(* find_slot_for_span without the refusal of busy slots *)
find_slot_for_span_busy_ok(st, span, sl, pol) ==
    LET r == FindLoop(sl, 1, span, pol, <<>>, <<>>) IN
    IF r.kind = "raise" THEN [err |-> r.err, found |-> <<>>, st |-> st]
    ELSE IF r.kind = "return" THEN [err |-> "none", found |-> r.found, st |-> st]
    ELSE IF r.free # <<>> THEN [err |-> "none", found |-> r.free, st |-> st]
    ELSE [err |-> "TimeUnavailableError", found |-> <<>>, st |-> st]

find_slot_for_span(st, span, sl, pol) ==
    LET r == FindLoop(sl, 1, span, pol, <<>>, <<>>) IN
    IF r.kind = "raise" THEN [err |-> r.err, found |-> <<>>, st |-> st]
    ELSE IF r.kind = "return" THEN [err |-> "none", found |-> r.found, st |-> st]
    ELSE IF r.busy # <<>>
    THEN [err |-> "TimeUnavailableError", found |-> <<>>, st |-> st]
    ELSE IF r.free # <<>> THEN [err |-> "none", found |-> r.free, st |-> st]
    ELSE IF ~pol.unscheduled
    THEN [err |-> "TimeUnavailableError", found |-> <<>>, st |-> st]
    ELSE [err |-> "none", found |-> <<>>,
          st |-> [st EXCEPT !.slots = PushSlots(st.slots, sl, 1, span)]]

(* find_slots: last_time is never set, so all spans form one group.  *)
PaddedOverlap(S, subj, span) ==
    {s \in S : s.subj = subj /\ s.start < span.padded_end /\ s.end > span.padded_start}

RECURSIVE FindSlotsLoop(_, _, _, _, _, _, _)

(* One round of the loop, from the result r of find_slot_for_span *)
FindSlotsStep(st, subj, spans, i, pol, return_spans, return_slots, r) ==
    IF r.err # "none"
    THEN [err |-> r.err, st |-> st, spans |-> <<>>, slots |-> <<>>]
    ELSE FindSlotsLoop(r.st, subj, spans, i + 1, pol,
                       Append(return_spans, spans[i]),
                       return_slots \o SelectSeq(r.found,
                           LAMBDA x : \A j \in 1..Len(return_slots) :
                                         return_slots[j].id # x.id))

FindSlotsLoop(st, subj, spans, i, pol, return_spans, return_slots) ==
    IF i > Len(spans)
    THEN [err |-> "none", st |-> st, spans |-> return_spans,
          slots |-> start_sorted(return_slots)]
    ELSE FindSlotsStep(st, subj, spans, i, pol, return_spans, return_slots,
             find_slot_for_span(st, spans[i],
                 SortByStart(PaddedOverlap(st.slots, subj, spans[i])), pol))

find_slots(st, subj, add_times, pol) ==
    FindSlotsLoop(st, subj, start_sorted(add_times), 1, pol, <<>>, <<>>)

(* save: the free remainders between and around the padded spans inside    *)
(* the found slots.                                                         *)
RECURSIVE InterSpans(_, _, _, _, _)
InterSpans(found_slot, spans, j, s_bound, inter) ==
    IF j > Len(spans) THEN [s_bound |-> s_bound, inter |-> inter]
    ELSE IF s_bound >= spans[j].padded_start
    THEN InterSpans(found_slot, spans, j + 1, Max(s_bound, spans[j].padded_end), inter)
    ELSE IF found_slot.end < spans[j].padded_start
    THEN [s_bound |-> s_bound, inter |-> inter]
    ELSE InterSpans(found_slot, spans, j + 1, spans[j].padded_end,
                    Append(inter, TimeSpan(s_bound, spans[j].padded_start)))

(* The remainders of save with none kept *)
InterSlotsNone(found_slots, i, spans, s_bound, inter) == inter

RECURSIVE InterSlots(_, _, _, _, _)
InterSlots(found_slots, i, spans, s_bound, inter) ==
    IF i > Len(found_slots) THEN inter
    ELSE LET found_slot == found_slots[i]
             r == InterSpans(found_slot, spans, 1, Max(s_bound, found_slot.start), inter)
         IN InterSlots(found_slots, i + 1, spans, r.s_bound,
                       IF r.s_bound < found_slot.end
                       THEN Append(r.inter, TimeSpan(r.s_bound, found_slot.end))
                       ELSE r.inter)

(* A remainder that is given no contributor *)
match_ao_ids_none(found_slots, inter_slot) == {}

(* The contributors of the found slots a remainder overlaps *)
match_ao_ids(found_slots, inter_slot) ==
    UNION {found_slots[i].aos :
              i \in {x \in 1..Len(found_slots) :
                        overlaps(found_slots[x], inter_slot)}}

(* The slots save creates for a group: core slots first, then the          *)
(* remainders, then the padding slots.                                      *)
NewSlots(st, subj, found_spans, found_slots, padding, busy) ==
    LET n == Len(found_spans)
        core == [j \in 1..n |->
                    TimeSlot(st.nid + j - 1, subj, found_spans[j].start,
                             found_spans[j].end, busy, NoSlot)]
        inter_spans == IF found_slots = <<>> THEN <<>>
                       ELSE InterSlots(found_slots, 1, found_spans,
                                       found_slots[1].start, <<>>)
        m == Len(inter_spans)
        inter == [k \in 1..m |->
                    [TimeSlot(st.nid + n + k - 1, subj, inter_spans[k].start,
                              inter_spans[k].end, FALSE, NoSlot)
                     EXCEPT !.aos = match_ao_ids(found_slots, inter_spans[k])]]
        pads == IF padding = 0 THEN {}
                ELSE UNION {{TimeSlot(st.nid + n + m + 2 * (j - 1), subj,
                                      found_spans[j].padded_start,
                                      found_spans[j].start, TRUE, core[j].id),
                             TimeSlot(st.nid + n + m + 2 * (j - 1) + 1, subj,
                                      found_spans[j].end,
                                      found_spans[j].padded_end, TRUE, core[j].id)}
                            : j \in 1..n}
    IN [core |-> {core[j] : j \in 1..n},
        rest |-> {inter[k] : k \in 1..m} \cup pads]

(* save on the store: the error raised, or the slots after.  A raise       *)
(* leaves the transaction and the store is as before.                       *)

(* The second half of save outside a transaction: what clear_slots and     *)
(* find_slots wrote before the raise stays.                                *)
SaveFoundUnrolled(S, b, bk, pol, f) ==
    IF f.err # "none" THEN [err |-> f.err, slots |-> f.st.slots]
    ELSE LET new == NewSlots(f.st, SubjectOf(b), f.spans, f.slots,
                             bk.padding, pol.busy)
             old_ids == {f.slots[i].id : i \in 1..Len(f.slots)}
             S2 == DeleteSlots(f.st.slots \cup new.core \cup new.rest, old_ids)
         IN [err |-> "none",
             slots |-> _connect_slots(S2, b, SlotIds(new.core))]

(* The second half of save: the new slots are created, the found slots     *)
(* deleted and the booking connected to the new core slots.                *)
SaveFound(S, b, bk, pol, f) ==
    IF f.err # "none" THEN [err |-> f.err, slots |-> S]
    ELSE LET new == NewSlots(f.st, SubjectOf(b), f.spans, f.slots,
                             bk.padding, pol.busy)
             old_ids == {f.slots[i].id : i \in 1..Len(f.slots)}
             S2 == DeleteSlots(f.st.slots \cup new.core \cup new.rest, old_ids)
         IN [err |-> "none",
             slots |-> _connect_slots(S2, b, SlotIds(new.core))]

(* The first half of save, from the result d of slot_diff: the released    *)
(* slots are cleared and the slots for the spans to add are found.         *)
SaveDiff(S, O, b, bk, pol, d) ==
    SaveFound(S, b, bk, pol,
              find_slots(clear_slots(Store(S), O, b, d.rm), SubjectOf(b), d.add, pol))

save(S, O, b, bk, was_saved, pol) ==
    SaveDiff(S, O, b, bk, pol, slot_diff(S, b, bk, was_saved))

(* _padding_changed: every padding slot of the subject is resized to the   *)
(* booking's padding; free slots are then cut back where a resized         *)
(* padding slot reaches into them.                                         *)
ResizedPadding(S, slot, p) ==
    IF SlotById(S, slot.pf).start > slot.start
    THEN [slot EXCEPT !.start = slot.end - p]
    ELSE [slot EXCEPT !.end = slot.start + p]

RECURSIVE SaveAll(_, _)
SaveAll(S, objs) ==
    IF objs = <<>> THEN S ELSE SaveAll(SaveSlot(S, Head(objs)), Tail(objs))

RECURSIVE CutFree(_, _, _, _, _)
CutFree(slot, csl, j, changed, delete) ==
    IF j > Len(csl) THEN [slot |-> slot, changed |-> changed, delete |-> delete]
    ELSE LET cs == csl[j] IN
         IF cs.start <= slot.start
         THEN IF cs.end >= slot.end
              THEN CutFree(slot, csl, j + 1, changed, TRUE)
              ELSE IF cs.end > slot.start
              THEN CutFree([slot EXCEPT !.start = cs.end], csl, j + 1, TRUE, delete)
              ELSE CutFree(slot, csl, j + 1, changed, delete)
         ELSE IF cs.start < slot.end
              THEN CutFree([slot EXCEPT !.end = cs.start], csl, j + 1, TRUE, delete)
              ELSE CutFree(slot, csl, j + 1, changed, delete)

_padding_changed(S, subj, p) ==
    LET my_slots == {s \in S : s.subj = subj}
        padding_slots == {s \in S : s.pf \in SlotIds(my_slots)}
        changed_slots == {ResizedPadding(S, s, p) : s \in padding_slots} \ S
        csl == SortById(changed_slots)
        S1 == SaveAll(S, csl)
        regen_time == ExpandAll(csl[1], csl)
        regen_query == {s \in S1 : /\ s.subj = subj
                                   /\ (s.end >= regen_time.start
                                        \/ s.start <= regen_time.end)
                                   /\ ~s.busy /\ s.bks = {}}
        cut == {CutFree(s, csl, 1, FALSE, FALSE) : s \in regen_query}
        changed_free_slots == {c.slot : c \in {x \in cut : x.changed}}
        delete_free_slots == {c.slot.id : c \in {x \in cut : x.delete}}
    IN IF changed_slots = {} THEN S
       ELSE DeleteSlots(SaveAll(S1, SortById(changed_free_slots)), delete_free_slots)

-----------------------------------------------------------------------------
(* The record of the last operation: the operation, the availability or   *)
(* booking it was called on, the exception it raised and, for a booking    *)
(* save, the row that was being saved and the policies of the acting       *)
(* party.  It is kept by the specifications that start with one; the       *)
(* others start untracked and stay so.                                     *)

NoBooking ==
    [saved |-> FALSE, state |-> STATE_UNCONFIRMED, times |-> <<>>, padding |-> 0]

DefaultPolicy ==
    [busy |-> TRUE, unscheduled |-> FALSE, overlapping |-> FALSE, dup |-> FALSE]

OpRecord(op, who, err, row, pol) ==
    [op |-> op, who |-> who, err |-> err, row |-> row, pol |-> pol]

Untracked == OpRecord("untracked", 0, "none", NoBooking, DefaultPolicy)

Started == OpRecord("init", 0, "none", NoBooking, DefaultPolicy)

Track(rec) == IF last = Untracked THEN last ELSE rec

(* The record of a reconciliation.  A specification that starts with       *)
(* StartedReconcile also keeps the occurrences the last reconciliation     *)
(* created and deleted.                                                    *)
Reconciled(op, a, created, deleted) ==
    [op |-> op, who |-> a, err |-> "none", row |-> NoBooking,
     pol |-> DefaultPolicy, created |-> created, deleted |-> deleted]

StartedReconcile == Reconciled("init", 0, {}, {})

ReconcileRecord(op, a, created, deleted) ==
    IF "created" \in DOMAIN last THEN Reconciled(op, a, created, deleted)
    ELSE OpRecord(op, a, "none", NoBooking, DefaultPolicy)

-----------------------------------------------------------------------------
(* Operations on availabilities *)

Horizon == TimeSpan(0, MaxTime)

(* Availability.save(): the post-save hook reconciles the window that      *)
(* starts now.                                                             *)
SaveAvailability(a, rule) ==
    /\ rule # NoRule
    /\ LET r == recreate_occurrences(slots, occs, a, rule, Horizon) IN
        /\ avails' = [avails EXCEPT ![a] = rule]
        /\ occs' = r.occs
        /\ slots' = Compact(r.slots)
        /\ last' = Track(ReconcileRecord("save_availability", a, r.created, r.deleted))
    /\ UNCHANGED bookings

RecreateOccurrences(a, w) ==
    /\ avails[a] # NoRule
    /\ LET r == recreate_occurrences(slots, occs, a, avails[a], w) IN
        /\ occs' = r.occs
        /\ slots' = Compact(r.slots)
        /\ last' = Track(ReconcileRecord("recreate_occurrences", a, r.created, r.deleted))
    /\ UNCHANGED <<avails, bookings>>

DeleteAvailability(a) ==
    /\ avails[a] # NoRule
    /\ LET mine == {o \in occs : o.av = a}
           st == PredeleteAll(Store(slots), SortOccs(mine), 1)
       IN /\ occs' = occs \ mine
          /\ slots' = Compact(DropAll(st.slots, mine))
          /\ last' = Track(ReconcileRecord("delete_availability", a, {}, mine))
    /\ avails' = [avails EXCEPT ![a] = NoRule]
    /\ UNCHANGED bookings

-----------------------------------------------------------------------------
(* Operations on bookings.  A failed save leaves the stored row and the    *)
(* store as they were; the caller's next save starts from the stored row.  *)

(* The end of a save: the record of the call, the slots the transaction    *)
(* leaves and the row, written when the save did not raise.                *)
Saved(b, bk, pol, r) ==
    /\ last' = Track(OpRecord("save", b, r.err, bk, pol))
    /\ slots' = Compact(r.slots)
    /\ IF r.err = "none"
       THEN bookings' = [bookings EXCEPT ![b] = [bk EXCEPT !.saved = TRUE]]
       ELSE UNCHANGED bookings

SaveBooking(b, bk, pol) ==
    /\ Saved(b, bk, pol, save(slots, occs, b, bk, bookings[b].saved, pol))
    /\ UNCHANGED <<avails, occs>>

(* Booking.objects.create(...): a new booking, unconfirmed *)
RequestBooking(b, times, p, pol) ==
    /\ ~bookings[b].saved
    /\ SaveBooking(b, [saved |-> FALSE, state |-> STATE_UNCONFIRMED,
                       times |-> times, padding |-> p], pol)

(* A state change (cancel, confirm, finish, expire or an assignment to     *)
(* state) followed by save()                                               *)
SetState(b, st, pol) ==
    /\ bookings[b].saved
    /\ bookings[b].state # st
    /\ SaveBooking(b, [bookings[b] EXCEPT !.state = st], pol)

(* The requested times after reschedule(new_times): requested_time_1 is    *)
(* always assigned, requested_time_2 only when two times are given.        *)
rescheduled_times(old, new_times) ==
    IF Len(new_times) > 1 \/ Len(old) < 2 THEN new_times
    ELSE <<new_times[1], old[2]>>

(* reschedule(new_times) followed by save() *)
Reschedule(b, times, pol) ==
    /\ bookings[b].saved
    /\ bookings[b].state \in {STATE_UNCONFIRMED, STATE_CONFIRMED}
    /\ SaveBooking(b, [bookings[b] EXCEPT
                          !.state = STATE_UNCONFIRMED,
                          !.times = rescheduled_times(@, times)], pol)

(* save() again with nothing changed *)
Resave(b, pol) ==
    /\ bookings[b].saved
    /\ SaveBooking(b, bookings[b], pol)

(* The booking's padding is changed and _padding_changed called.  *)
ChangePadding(b, p) ==
    /\ bookings[b].saved
    /\ bookings[b].padding # p
    /\ bookings' = [bookings EXCEPT ![b].padding = p]
    /\ slots' = Compact(_padding_changed(slots, SubjectOf(b), p))
    /\ last' = Track(OpRecord("padding_changed", b, "none", NoBooking, DefaultPolicy))
    /\ UNCHANGED <<avails, occs>>

-----------------------------------------------------------------------------
(* Availabilities only *)

AvailIds == {11, 12, 13}
BookingIds == {11, 12}

SingleRules == {[starts |-> {s}, dur |-> 2] : s \in 0..(MaxTime - 2)}
WeeklyRules == {[starts |-> {0, 4}, dur |-> 2]}
AvailRules == SingleRules \cup WeeklyRules

Windows == {Horizon, TimeSpan(0, 2)}

InitAvail ==
    /\ avails = [a \in AvailIds |-> NoRule]
    /\ occs = {}
    /\ slots = {}
    /\ bookings = [b \in BookingIds |-> NoBooking]
    /\ last = Started

NextAvail ==
    \/ \E a \in AvailIds, r \in AvailRules : SaveAvailability(a, r)
    \/ \E a \in AvailIds, w \in Windows : RecreateOccurrences(a, w)
    \/ \E a \in AvailIds : DeleteAvailability(a)

SpecAvail == InitAvail /\ [][NextAvail]_vars

-----------------------------------------------------------------------------
(* Instants are compared cell by cell: cell t is the interval [t, t+1).  *)

Cells == (0 - 3 * (MaxPad + 1))..(MaxTime + DURATION + 3 * (MaxPad + 1))

CellsOf(X) == {t \in Cells : \E x \in X : x.start <= t /\ t < x.end}

(* The maximal runs of a set of cells, as spans *)
Runs(C) ==
    {sp \in {TimeSpan(a, b + 1) : a \in C, b \in C} :
        /\ sp.start < sp.end
        /\ \A t \in (sp.start)..(sp.end - 1) : t \in C
        /\ (sp.start - 1) \notin C
        /\ sp.end \notin C}

SpansOf(S) == {TimeSpan(s.start, s.end) : s \in S}

IsFree(s) == ~s.busy /\ s.bks = {}

(* C6: with no busy or booked slot, the slots are exactly the maximal      *)
(* unions of touching-or-overlapping occurrence spans, one free slot each. *)
C6_SlotsAreMergedOccurrences ==
    (\A s \in slots : IsFree(s)) =>
        /\ SpansOf(slots) = Runs(CellsOf(occs))
        /\ Cardinality(slots) = Cardinality(Runs(CellsOf(occs)))

(* Three availabilities whose occurrences touch have been saved and feed    *)
(* one slot over all of them.                                               *)
C6_Witness ==
    /\ last.op = "save_availability"
    /\ Cardinality(occs) = 3
    /\ \E s \in slots : slots = {s} /\ s.aos = occs /\ IsFree(s)
                          /\ s.start = 0 /\ s.end = MaxTime

-----------------------------------------------------------------------------
(* Availabilities and bookings of one subject *)

Avails2 == {11, 12}
Rules2 == {[starts |-> {0}, dur |-> MaxTime], [starts |-> {0}, dur |-> 4],
           [starts |-> {4}, dur |-> 2]}
Times2 == {<<t>> : t \in {1, MaxTime - 2}}
Pads == 0..MaxPad
Pads2 == {0, DURATION}
Policies2 == {DefaultPolicy}
Targets2 == {STATE_CONFIRMED, STATE_CANCELED}

Init ==
    /\ avails = [a \in Avails2 |-> NoRule]
    /\ occs = {}
    /\ slots = {}
    /\ bookings = [b \in BookingIds |-> NoBooking]
    /\ last = Untracked

Next ==
    \/ \E a \in Avails2, r \in Rules2 : SaveAvailability(a, r)
    \/ \E a \in Avails2 : DeleteAvailability(a)
    \/ \E b \in BookingIds, t \in Times2, p \in Pads2, pol \in Policies2 :
          RequestBooking(b, t, p, pol)
    \/ \E b \in BookingIds, st \in Targets2 : SetState(b, st, DefaultPolicy)
    \/ \E b \in BookingIds, t \in Times2 : Reschedule(b, t, DefaultPolicy)
    \/ \E b \in BookingIds, p \in Pads2 : ChangePadding(b, p)

Spec == Init /\ [][Next]_vars

(* C1: no two slots of a subject overlap, except a padding slot and the    *)
(* slot it is padding for.                                                  *)
C1_NoOverlap ==
    \A x \in slots, y \in slots :
        (x.id # y.id /\ x.subj = y.subj /\ overlaps(x, y))
            => (x.pf = y.id \/ y.pf = x.id)

(* C2: the free slots cover exactly the instants that lie inside some       *)
(* occurrence and outside every busy or booked slot.                        *)
C2_FreeCoverage ==
    CellsOf({s \in slots : IsFree(s)})
        = CellsOf(occs) \ CellsOf({s \in slots : ~IsFree(s)})

(* The slots a booking is linked to *)
LinkedSlots(b) == {s \in slots : b \in s.bks}

(* C3: a saved booking in a reserved state is linked to exactly one slot    *)
(* [t, t + DURATION) for each of its requested times and to no other slot;  *)
(* a booking in any other state is linked to no slot.                       *)
C3_ReservedOwnsSlots ==
    \A b \in BookingIds :
        LET bk == bookings[b]
            ts == {bk.times[i] : i \in 1..Len(bk.times)}
        IN IF bk.saved /\ bk.state \in RESERVED_STATES
           THEN /\ \A t \in ts :
                     Cardinality({s \in LinkedSlots(b) :
                         s.start = t /\ s.end = t + DURATION}) = 1
                /\ \A s \in LinkedSlots(b) : s.start \in ts /\ s.end = s.start + DURATION
           ELSE LinkedSlots(b) = {}

-----------------------------------------------------------------------------
(* Bookings in one occurrence: the subject has one availability whose      *)
(* occurrence spans the horizon, and bookings are saved by parties with    *)
(* and without permission to share a slot.                                 *)

AvailsB == {11}
RuleB == [starts |-> {0}, dur |-> MaxTime]
OccB == [av |-> 11, start |-> 0, end |-> MaxTime]
MultiPolicy == [DefaultPolicy EXCEPT !.busy = FALSE]
PoliciesB == {DefaultPolicy, MultiPolicy}
TimesB == {<<1>>, <<2>>, <<1, MaxTime - 2>>}
TargetsB == {STATE_CONFIRMED, STATE_CANCELED}

InitBook ==
    /\ avails = [a \in AvailsB |-> RuleB]
    /\ occs = {OccB}
    /\ slots = {[TimeSlot(1, SubjectOf(11), 0, MaxTime, FALSE, NoSlot)
                    EXCEPT !.aos = {OccB}]}
    /\ bookings = [b \in BookingIds |-> NoBooking]
    /\ last = Started

NextBook ==
    \/ \E b \in BookingIds, t \in TimesB, p \in Pads, pol \in PoliciesB :
          RequestBooking(b, t, p, pol)
    \/ \E b \in BookingIds, st \in TargetsB, pol \in PoliciesB :
          SetState(b, st, pol)
    \/ \E b \in BookingIds, t \in TimesB, pol \in PoliciesB :
          Reschedule(b, t, pol)

SpecBook == InitBook /\ [][NextBook]_vars

-----------------------------------------------------------------------------
(* Properties of a booking save, read off the record of the last           *)
(* operation: in a step, last' names the save that was made from the       *)
(* unprimed state.                                                         *)

(* What a slot is, apart from its primary key *)
Shape(S, s) ==
    [start |-> s.start, end |-> s.end, busy |-> s.busy, bks |-> s.bks,
     padding_for |-> IF s.pf = NoSlot THEN <<>>
                     ELSE <<SlotById(S, s.pf).start, SlotById(S, s.pf).end>>]

Shapes(S, X) == {Shape(S, s) : s \in X}

(* TimeUnavailableError and its subclass OverlappingTimeError *)
IsTimeUnavailable(err) == err \in {"TimeUnavailableError", "OverlappingTimeError"}

(* The spans the save being made has to place *)
AddSpans(b, row) ==
    LET add == slot_diff(slots, b, row, bookings[b].saved).add
    IN {add[i] : i \in 1..Len(add)}

(* The booking's own slots: the slots it is linked to and their padding *)
OwnSlots(b) ==
    {s \in slots : b \in s.bks \/ (s.pf # NoSlot /\ b \in SlotById(slots, s.pf).bks)}

Overlapping(sp) == {s \in slots : overlaps(sp, s)}

(* C8: a save whose core span overlaps a busy slot that is not the          *)
(* booking's own raises TimeUnavailableError and leaves slots and booking   *)
(* as they were.                                                            *)
C8_Body ==
    (/\ last'.op = "save"
     /\ \E sp \in AddSpans(last'.who, last'.row) :
           \E s \in Overlapping(sp) \ OwnSlots(last'.who) : s.busy)
        => (/\ IsTimeUnavailable(last'.err)
            /\ slots' = slots
            /\ bookings' = bookings)

C8_BusyOverlapRaises == [][C8_Body]_vars

(* A booking that asks for a span another booking already holds a slot for *)
SharedRequest(b, row, s) ==
    /\ ~bookings[b].saved
    /\ Len(row.times) = 1
    /\ s.bks # {}
    /\ s \notin OwnSlots(b)
    /\ \E sp \in AddSpans(b, row) : time_equals(s, sp)

PaddingOf(S, c) == {x \in S : x.pf = c.id}

(* C9: a second booking for exactly the span of a booked slot is refused    *)
(* with TimeUnavailableError when the slot is busy; when the slot is not    *)
(* busy and the duplicate predicate is false the save succeeds, the slot    *)
(* for the span stays busy=false, its padding slots stay busy and the set   *)
(* of slot intervals is unchanged.                                          *)
C9_Body ==
    last'.op = "save" =>
        \A s \in slots :
            SharedRequest(last'.who, last'.row, s) =>
                IF s.busy
                THEN IsTimeUnavailable(last'.err)
                ELSE ~last'.pol.dup =>
                        /\ last'.err = "none"
                        /\ \A c \in slots' :
                              (c.pf = NoSlot /\ time_equals(c, s)) =>
                                  /\ ~c.busy
                                  /\ \A x \in PaddingOf(slots', c) : x.busy
                        /\ SpansOf(slots') = SpansOf(slots)

C9_SameSpanSecondBooking == [][C9_Body]_vars

(* C10: a save whose core span overlaps a booked slot of other bounds       *)
(* raises OverlappingTimeError when _book_overlapping is false.             *)
C10_Body ==
    (/\ last'.op = "save"
     /\ ~last'.pol.overlapping
     /\ \E sp \in AddSpans(last'.who, last'.row) :
           \E s \in Overlapping(sp) \ OwnSlots(last'.who) :
               s.bks # {} /\ ~time_equals(s, sp))
        => last'.err = "OverlappingTimeError"

AllReleased ==
    /\ \E b \in BookingIds : bookings[b].saved
    /\ \A b \in BookingIds :
          bookings[b].saved => bookings[b].state \notin RESERVED_STATES

C5_CancelRestoresSlot ==
    AllReleased =>
        LET over == {s \in slots : s.start < OccB.end /\ s.end > OccB.start}
        IN /\ Cardinality(over) = 1
           /\ \A s \in over : IsFree(s) /\ time_equals(s, OccB)

-----------------------------------------------------------------------------
(* The five-piece layout of a booking carved out of a free slot *)

FreeShape(a, b) ==
    [start |-> a, end |-> b, busy |-> FALSE, bks |-> {}, padding_for |-> <<>>]

PadShape(a, b, sp) ==
    [start |-> a, end |-> b, busy |-> TRUE, bks |-> {},
     padding_for |-> <<sp.start, sp.end>>]

CoreShape(sp, b, busy) ==
    [start |-> sp.start, end |-> sp.end, busy |-> busy, bks |-> {b},
     padding_for |-> <<>>]

Triple(sp, b, busy) ==
    {PadShape(sp.padded_start, sp.start, sp), CoreShape(sp, b, busy),
     PadShape(sp.end, sp.padded_end, sp)}

FivePieces(s, sp, b, busy) ==
    (IF s.start < sp.padded_start
     THEN {FreeShape(s.start, sp.padded_start)} ELSE {})
    \cup Triple(sp, b, busy)
    \cup (IF sp.padded_end < s.end
          THEN {FreeShape(sp.padded_end, s.end)} ELSE {})

(* The slots of S inside the bounds of s *)
Within(S, s) == {x \in S : x.start < s.end /\ x.end > s.start}

(* A free slot no other slot overlaps, with the padded span inside it *)
Holds(s, sp) ==
    /\ IsFree(s)
    /\ s.start <= sp.padded_start /\ sp.padded_end <= s.end
    /\ \A x \in slots \ {s} : ~overlaps(x, s)

(* A successful save of a reserved booking with padding that releases      *)
(* nothing                                                                  *)
PlacesWithPadding ==
    /\ last'.op = "save"
    /\ last'.err = "none"
    /\ last'.row.padding > 0
    /\ last'.row.state \in RESERVED_STATES
    /\ slot_diff(slots, last'.who, last'.row, bookings[last'.who].saved).rm = <<>>

(* C4, as stated: for each requested time whose padded span lies inside a  *)
(* free slot, the slot is replaced by free remainder, busy padding, busy    *)
(* core linked to the booking, busy padding, free remainder.                *)
C4_Literal_Body ==
    PlacesWithPadding =>
        \A sp \in AddSpans(last'.who, last'.row) : \A s \in slots :
            Holds(s, sp) =>
                /\ Shapes(slots', Within(slots', s))
                      = FivePieces(s, sp, last'.who, TRUE)
                /\ Cardinality(Within(slots', s))
                      = Cardinality(FivePieces(s, sp, last'.who, TRUE))

PaddedCells(A) ==
    {t \in Cells : \E sp \in A : sp.padded_start <= t /\ t < sp.padded_end}

Pieces(s, A, b, busy) ==
    {x \in UNION {Triple(sp, b, busy) : sp \in A} :
        x.start < s.end /\ x.end > s.start}
    \cup {FreeShape(r.start, r.end) : r \in Runs(CellsOf({s}) \ PaddedCells(A))}

(* C4: for a slot that holds the padded span of a requested time, the save  *)
(* leaves inside the slot's bounds the padding and core slots of each       *)
(* requested time, the core busy as _is_booked_slot_busy says and linked to *)
(* the booking, and free slots over the rest; with one requested time       *)
(* these are the five pieces.                                               *)
C4_Body ==
    PlacesWithPadding =>
        LET b == last'.who
            A == AddSpans(b, last'.row)
        IN \A s \in slots :
            (\E sp \in A : Holds(s, sp)) =>
                /\ Shapes(slots', Within(slots', s))
                      = Pieces(s, A, b, last'.pol.busy)
                /\ Cardinality(Within(slots', s))
                      = Cardinality(Pieces(s, A, b, last'.pol.busy))
                /\ \A sp \in A : Cardinality(A) = 1 =>
                      Pieces(s, A, b, last'.pol.busy)
                          = FivePieces(s, sp, b, last'.pol.busy)

-----------------------------------------------------------------------------
(* Availability operations and the slots of bookings *)

Reserved(S) == {s \in S : ~IsFree(s)}

(* An availability operation changes the availabilities or the             *)
(* occurrences; a booking operation changes neither.                       *)
AvailabilityStep == avails' # avails \/ occs' # occs

AvailabilityFrame ==
    AvailabilityStep =>
        /\ Shapes(slots', Reserved(slots')) = Shapes(slots, Reserved(slots))
        /\ Cardinality(Reserved(slots')) = Cardinality(Reserved(slots))

(* A save that takes a booking out of the reserved states releases its     *)
(* slots: what they covered is free afterwards wherever an occurrence      *)
(* covers it and no other busy or booked slot does.                        *)
ReleaseFrees ==
    \A b \in BookingIds :
        (/\ bookings[b].saved
         /\ bookings[b].state \in RESERVED_STATES
         /\ bookings'[b].state \notin RESERVED_STATES)
            => \A t \in CellsOf(OwnSlots(b)) :
                  (t \in CellsOf(occs') /\ t \notin CellsOf(Reserved(slots')))
                      => t \in CellsOf(slots' \ Reserved(slots'))

(* C7: no availability operation deletes, resizes or changes the busy flag *)
(* of a busy or booked slot; the slot stays until a booking save releases  *)
(* it, and then its region is free as the occurrences have it.             *)
C7_BusySlotsPersist == [][AvailabilityFrame /\ ReleaseFrees]_vars

C7_AvailabilityFrame == [][AvailabilityFrame]_vars

-----------------------------------------------------------------------------
(* C10: a save whose core span overlaps a booked slot of other bounds is    *)
(* refused when _book_overlapping is false, with TimeUnavailableError or    *)
(* its subclass OverlappingTimeError.                                       *)
C10_Refused_Body ==
    (/\ last'.op = "save"
     /\ ~last'.pol.overlapping
     /\ \E sp \in AddSpans(last'.who, last'.row) :
           \E s \in Overlapping(sp) \ OwnSlots(last'.who) :
               s.bks # {} /\ ~time_equals(s, sp))
        => (/\ IsTimeUnavailable(last'.err)
            /\ slots' = slots
            /\ bookings' = bookings)

C5_Witness ==
    /\ last.op = "save"
    /\ last.err = "none"
    /\ last.row.state = STATE_CANCELED
    /\ \A b \in BookingIds :
          /\ bookings[b].saved
          /\ bookings[b].state = STATE_CANCELED
          /\ bookings[b].times # <<>>
    /\ bookings[11].times # bookings[12].times
    /\ Cardinality(slots) = 1

-----------------------------------------------------------------------------
(* Bookings in unscheduled time: the subject's one occurrence is [0, 4),   *)
(* and bookings are requested inside it, right after it and away from it,  *)
(* by parties with and without permission to book unscheduled time.        *)

RuleU == [starts |-> {0}, dur |-> 4]
OccU == [av |-> 11, start |-> 0, end |-> 4]
UnscheduledPolicy == [DefaultPolicy EXCEPT !.unscheduled = TRUE]
PoliciesU == {DefaultPolicy, UnscheduledPolicy}
TimesU == {<<1>>, <<4>>, <<MaxTime>>}

InitUnscheduled ==
    /\ avails = [a \in AvailsB |-> RuleU]
    /\ occs = {OccU}
    /\ slots = {[TimeSlot(1, SubjectOf(11), OccU.start, OccU.end, FALSE, NoSlot)
                    EXCEPT !.aos = {OccU}]}
    /\ bookings = [b \in BookingIds |-> NoBooking]
    /\ last = Started

NextUnscheduled ==
    \/ \E b \in BookingIds, t \in TimesU, p \in Pads, pol \in PoliciesU :
          RequestBooking(b, t, p, pol)
    \/ \E b \in BookingIds, st \in TargetsB, pol \in PoliciesU :
          SetState(b, st, pol)

SpecUnscheduled == InitUnscheduled /\ [][NextUnscheduled]_vars

(* A save that has spans to place, none of which overlaps a slot *)
OffSchedule ==
    /\ last'.op = "save"
    /\ AddSpans(last'.who, last'.row) # {}
    /\ \A sp \in AddSpans(last'.who, last'.row) : Overlapping(sp) = {}

(* The save went through and each span has its core slot, linked to the    *)
(* booking.                                                                 *)
CoresCreated ==
    /\ last'.err = "none"
    /\ \A sp \in AddSpans(last'.who, last'.row) :
          \E c \in slots' : time_equals(c, sp) /\ last'.who \in c.bks /\ c.pf = NoSlot

(* C11, as stated: a save whose core span overlaps no slot raises           *)
(* TimeUnavailableError unless _book_unscheduled is true, and then it       *)
(* succeeds and creates the core slot.                                      *)
C11_Literal_Body ==
    OffSchedule =>
        IF last'.pol.unscheduled THEN CoresCreated
        ELSE IsTimeUnavailable(last'.err)

C11_Literal == [][C11_Literal_Body]_vars

(* A booked slot within the padding of one of the spans to place *)
BookedInPadding ==
    \E sp \in AddSpans(last'.who, last'.row) :
        \E s \in PaddedOverlap(slots, SubjectOf(last'.who), sp) : s.bks # {}

(* C11, with a refusal for a booked slot within the padding allowed: a     *)
(* save whose core span overlaps no slot is refused with                    *)
(* TimeUnavailableError (or its subclass) and changes nothing when          *)
(* _book_unscheduled is false or a booked slot lies within the span's       *)
(* padding; otherwise it succeeds and creates the core slot.                *)
C11_Body ==
    OffSchedule =>
        IF last'.pol.unscheduled /\ ~BookedInPadding THEN CoresCreated
        ELSE /\ IsTimeUnavailable(last'.err)
             /\ slots' = slots
             /\ bookings' = bookings

C11_UnscheduledPlacement == [][C11_Body]_vars

-----------------------------------------------------------------------------
(* C12: a save that raises leaves the slots, with their occurrences and    *)
(* booking links, and every booking's stored row as they were before it.   *)
C12_Body ==
    (last'.op = "save" /\ last'.err # "none")
        => (slots' = slots /\ bookings' = bookings)

C12_FailedSaveRollsBack == [][C12_Body]_vars

(* A save of a stored booking with new requested times, which releases the *)
(* booking's slots before it looks for the new ones, has raised.           *)
C12_Witness ==
    /\ last.op = "save"
    /\ last.err # "none"
    /\ bookings[last.who].saved
    /\ bookings[last.who].state \in RESERVED_STATES
    /\ last.row.state \in RESERVED_STATES
    /\ last.row.times # bookings[last.who].times
    /\ OwnSlots(last.who) # {}

-----------------------------------------------------------------------------
(* C13: after recreate_occurrences has run for an availability and a       *)
(* window, a second run for the same availability and window creates no    *)
(* occurrence, deletes none and leaves every slot, with its occurrences,   *)
(* as it is.                                                               *)
SecondRunIdle(a, w, r2) ==
    /\ r2.created = {}
    /\ r2.deleted = {}
    /\ r2.occs = occs'
    /\ Compact(r2.slots) = slots'

C13_Body ==
    \A a \in AvailIds, w \in Windows :
        RecreateOccurrences(a, w)
            => SecondRunIdle(a, w,
                   recreate_occurrences(slots', occs', a, avails'[a], w))

C13_SecondRunIdle == [][C13_Body]_vars

(* recreate_occurrences has run for an availability of two occurrences     *)
(* over a window that holds one of them, and has deleted the other, next   *)
(* to the occurrences of another availability.                             *)
C13_Witness ==
    /\ last.op = "recreate_occurrences"
    /\ avails[last.who] \in WeeklyRules
    /\ {o \in occs : o.av = last.who}
           = get_recurrences(last.who, avails[last.who], TimeSpan(0, 2))
    /\ \E o \in occs : o.av # last.who
    /\ slots # {}

-----------------------------------------------------------------------------
(* Bookings in one occurrence that are saved again as they are stored *)

NextResave ==
    \/ \E b \in BookingIds, t \in TimesB, p \in Pads, pol \in PoliciesB :
          RequestBooking(b, t, p, pol)
    \/ \E b \in BookingIds, st \in TargetsB, pol \in PoliciesB :
          SetState(b, st, pol)
    \/ \E b \in BookingIds, pol \in PoliciesB : Resave(b, pol)

SpecResave == InitBook /\ [][NextResave]_vars

(* C14: a save of a stored booking whose state, times and padding are the  *)
(* stored ones succeeds and leaves every slot (bounds, busy flag,          *)
(* occurrences, links to this and to other bookings) as it was.            *)
C14_Body ==
    (last'.op = "save" /\ last'.row = bookings[last'.who])
        => (last'.err = "none" /\ slots' = slots /\ bookings' = bookings)

C14_ResaveIsNoOp == [][C14_Body]_vars

-----------------------------------------------------------------------------
(* Reconciliations with a record of what each created and deleted: two     *)
(* availabilities whose rules are saved, replaced and re-read over the     *)
(* whole horizon and over its first two units.                             *)

ReconcileAvails == {11, 12}
ReconcileRules ==
    {r \in AvailRules : r.starts \subseteq {0, 2, 4}}
        \cup {[starts |-> {0, 2}, dur |-> 2]}

InitReconcile ==
    /\ avails = [a \in AvailIds |-> NoRule]
    /\ occs = {}
    /\ slots = {}
    /\ bookings = [b \in BookingIds |-> NoBooking]
    /\ last = StartedReconcile

NextReconcile ==
    \/ \E a \in ReconcileAvails, r \in ReconcileRules : SaveAvailability(a, r)
    \/ \E a \in ReconcileAvails, w \in Windows : RecreateOccurrences(a, w)
    \/ \E a \in ReconcileAvails : DeleteAvailability(a)

SpecReconcile == InitReconcile /\ [][NextReconcile]_vars

(* What recreate_occurrences(w) of availability a with the rule must       *)
(* leave: each pair of the window is an occurrence, created by the run     *)
(* exactly when it did not exist and otherwise neither created nor         *)
(* deleted; each occurrence that existed inside the window and whose pair  *)
(* the rule no longer yields is gone and no slot is associated with it.    *)
Reconciles(a, rule, w) ==
    LET fresh == get_recurrences(a, rule, w)
        existing == {o \in occs : o.av = a}
        gone == {o \in existing \ fresh : w.start <= o.start /\ o.start <= w.end}
    IN /\ \A p \in fresh :
             /\ Cardinality({o \in occs' : o.av = a /\ time_equals(o, p)}) = 1
             /\ p \in last'.created <=> p \notin existing
             /\ p \notin last'.deleted
       /\ \A o \in gone :
             /\ o \notin occs'
             /\ o \in last'.deleted
             /\ \A s \in slots' : o \notin s.aos

(* C15: recreate_occurrences, called directly or by the save of an         *)
(* availability, leaves exactly one occurrence for every pair the rule     *)
(* yields in the window, keeps the matching occurrences that existed, and  *)
(* detaches and deletes the occurrences in the window that no longer       *)
(* match.                                                                  *)
C15_Body ==
    \A a \in ReconcileAvails :
        /\ \A w \in Windows :
              RecreateOccurrences(a, w) => Reconciles(a, avails[a], w)
        /\ \A r \in ReconcileRules :
              SaveAvailability(a, r) => Reconciles(a, r, Horizon)

C15_Reconciled == [][C15_Body]_vars

(* A reconciliation has kept an occurrence, created one and deleted one    *)
(* that a slot shared with another availability was associated with.       *)
C15_Witness ==
    /\ last.op = "save_availability"
    /\ last.created # {}
    /\ last.deleted # {}
    /\ \E o \in occs : o.av = last.who /\ o \notin last.created
    /\ \E s \in slots : \E o \in s.aos : \E d \in last.deleted :
          o.av # last.who /\ overlaps(o, d)

-----------------------------------------------------------------------------
(* The state-change methods of a booking.  Here a booking is the object    *)
(* in memory of the test application's Booking:                            *)
(* [state, requested_time_1, requested_time_2, assignee]; guest and        *)
(* schedule are the two parties, and the editor of a call is the party     *)
(* named by the enclosing set_editor block, None outside one.  Each method *)
(* is an operator from the object to the error raised ("none" for a        *)
(* return) and the object the call leaves.                                 *)

None == -1
guest == 1
schedule == 2

Raise(err, obj) == [err |-> err, obj |-> obj]
Return(obj) == [err |-> "none", obj |-> obj]

(* AbstractBooking.cancel *)
cancel(obj) ==
    IF obj.state \in {STATE_UNCONFIRMED, STATE_CONFIRMED}
    THEN Return([obj EXCEPT !.state = STATE_CANCELED])
    ELSE Raise("InvalidState", obj)

(* Booking.cancel_with_reason *)
cancel_with_reason(obj, editor) ==
    IF editor = None THEN Raise("RuntimeError", obj)
    ELSE IF obj.state \in {STATE_UNCONFIRMED, STATE_CONFIRMED}
    THEN Return([obj EXCEPT !.state = STATE_CANCELED, !.assignee = None])
    ELSE Raise("ValidationError", obj)

(* Booking.expire: dt > now with dt None is a TypeError.  *)
expire(obj, now) ==
    IF obj.state # STATE_UNCONFIRMED THEN Raise("ValidationError", obj)
    ELSE IF obj.requested_time_1 = None THEN Raise("TypeError", obj)
    ELSE IF obj.requested_time_1 > now THEN Raise("ValidationError", obj)
    ELSE IF obj.requested_time_2 = None THEN Raise("TypeError", obj)
    ELSE IF obj.requested_time_2 > now THEN Raise("ValidationError", obj)
    ELSE Return([obj EXCEPT !.state = STATE_EXPIRED])

(* Booking.finish; started says that no slot of the booking starts after   *)
(* now.                                                                    *)
finish(obj, editor, has_happened, started) ==
    IF editor = None THEN Raise("RuntimeError", obj)
    ELSE IF obj.state # STATE_CONFIRMED THEN Raise("ValidationError", obj)
    ELSE IF ~started THEN Raise("ValidationError", obj)
    ELSE Return([obj EXCEPT !.state = IF has_happened THEN STATE_COMPLETED
                                                       ELSE STATE_MISSED])

(* Booking.confirm without the check of the requested times *)
confirm_any_time(obj, editor, time) ==
    IF editor = None THEN Raise("RuntimeError", obj)
    ELSE IF obj.assignee # None /\ editor # obj.assignee
    THEN Raise("ValidationError", obj)
    ELSE Return([obj EXCEPT !.requested_time_1 = time,
                            !.requested_time_2 = None,
                            !.state = STATE_CONFIRMED,
                            !.assignee = None])

(* Booking.confirm *)
confirm(obj, editor, time) ==
    IF editor = None THEN Raise("RuntimeError", obj)
    ELSE IF obj.assignee # None /\ editor # obj.assignee
    THEN Raise("ValidationError", obj)
    ELSE IF time \notin {obj.requested_time_1, obj.requested_time_2}
    THEN Raise("ValidationError", obj)
    ELSE Return([obj EXCEPT !.requested_time_1 = time,
                            !.requested_time_2 = None,
                            !.state = STATE_CONFIRMED,
                            !.assignee = None])

(* Booking.reschedule: the state is set before the editor is looked at.    *)
reschedule(obj, editor, new_times) ==
    IF Len(new_times) < 1 \/ Len(new_times) > 2
    THEN Raise("ValidationError", obj)
    ELSE IF obj.state \notin {STATE_UNCONFIRMED, STATE_CONFIRMED}
    THEN Raise("ValidationError", obj)
    ELSE IF editor = None
    THEN Raise("RuntimeError", [obj EXCEPT !.state = STATE_UNCONFIRMED])
    ELSE Return([obj EXCEPT
                   !.state = STATE_UNCONFIRMED,
                   !.requested_time_1 = new_times[1],
                   !.requested_time_2 = IF Len(new_times) > 1
                                        THEN new_times[2] ELSE @,
                   !.assignee = IF editor = guest THEN schedule ELSE guest])

(* get_requested_times *)
get_requested_times(obj) ==
    {obj.requested_time_1, obj.requested_time_2} \ {None}

(* The record of a call of a state-change method; arg is the list of the   *)
(* times or flags it was given.                                            *)
StateCall(op, b, editor, arg, r) ==
    [op |-> op, who |-> b, err |-> r.err, row |-> NoBooking,
     pol |-> DefaultPolicy, editor |-> editor, arg |-> arg]

Called(op, b, editor, arg, r) ==
    /\ bookings' = [bookings EXCEPT ![b] = r.obj]
    /\ last' = StateCall(op, b, editor, arg, r)

Cancel(b) ==
    /\ Called("cancel", b, None, <<>>, cancel(bookings[b]))
    /\ UNCHANGED <<avails, occs, slots>>

CancelWithReason(b, editor) ==
    /\ Called("cancel_with_reason", b, editor, <<>>,
              cancel_with_reason(bookings[b], editor))
    /\ UNCHANGED <<avails, occs, slots>>

Expire(b, now) ==
    /\ Called("expire", b, None, <<now>>, expire(bookings[b], now))
    /\ UNCHANGED <<avails, occs, slots>>

Finish(b, editor, has_happened, started) ==
    /\ Called("finish", b, editor, <<IF has_happened THEN 1 ELSE 0>>,
              finish(bookings[b], editor, has_happened, started))
    /\ UNCHANGED <<avails, occs, slots>>

Confirm(b, editor, time) ==
    /\ Called("confirm", b, editor, <<time>>,
              confirm(bookings[b], editor, time))
    /\ UNCHANGED <<avails, occs, slots>>

RescheduleCall(b, editor, new_times) ==
    /\ Called("reschedule", b, editor, new_times,
              reschedule(bookings[b], editor, new_times))
    /\ UNCHANGED <<avails, occs, slots>>

StateTimes == {1, 4}
NewTimes == {<<>>, <<2>>, <<4>>, <<2, 3>>, <<1, 2, 3>>}
Editors == {None, guest, schedule}
Nows == {0, MaxTime}
ActingBooking == 11

NewBookings ==
    [state : {STATE_UNCONFIRMED},
     requested_time_1 : StateTimes,
     requested_time_2 : StateTimes \cup {None},
     assignee : {None, schedule}]

InitStates ==
    /\ avails = [a \in AvailsB |-> RuleB]
    /\ occs = {OccB}
    /\ slots = {}
    /\ bookings \in [BookingIds -> NewBookings]
    /\ bookings[12] = bookings[11]
    /\ last = StateCall("init", 0, None, <<>>, Return(bookings[11]))

NextStates ==
    \/ Cancel(ActingBooking)
    \/ \E e \in Editors : CancelWithReason(ActingBooking, e)
    \/ \E now \in Nows : Expire(ActingBooking, now)
    \/ \E e \in Editors, h \in BOOLEAN, st \in BOOLEAN :
          Finish(ActingBooking, e, h, st)
    \/ \E e \in Editors, t \in StateTimes \cup {2} :
          Confirm(ActingBooking, e, t)
    \/ \E e \in Editors, ts \in NewTimes : RescheduleCall(ActingBooking, e, ts)

SpecStates == InitStates /\ [][NextStates]_vars

-----------------------------------------------------------------------------
(* Properties of the state-change methods: in a step, last' names the call *)
(* made on bookings[last'.who], and bookings' holds the object it left.    *)

Before == bookings[last'.who]
After == bookings'[last'.who]

(* C16: cancel takes an unconfirmed booking to declined and a confirmed    *)
(* one to canceled; in every other state it raises InvalidState and the    *)
(* state stays.                                                            *)
C16_Body ==
    last'.op = "cancel" =>
        /\ Before.state = STATE_UNCONFIRMED =>
               (last'.err = "none" /\ After.state = STATE_DECLINED)
        /\ Before.state = STATE_CONFIRMED =>
               (last'.err = "none" /\ After.state = STATE_CANCELED)
        /\ Before.state \notin {STATE_UNCONFIRMED, STATE_CONFIRMED} =>
               (last'.err = "InvalidState" /\ After.state = Before.state)

C16_CancelTransitions == [][C16_Body]_vars

(* The transitions of the state machine *)
Transitions ==
    {<<STATE_UNCONFIRMED, STATE_CONFIRMED>>,
     <<STATE_UNCONFIRMED, STATE_DECLINED>>,
     <<STATE_UNCONFIRMED, STATE_EXPIRED>>,
     <<STATE_CONFIRMED, STATE_CANCELED>>,
     <<STATE_CONFIRMED, STATE_COMPLETED>>,
     <<STATE_CONFIRMED, STATE_MISSED>>}

TerminalStates ==
    {STATE_DECLINED, STATE_CANCELED, STATE_COMPLETED, STATE_MISSED,
     STATE_EXPIRED}

(* C17: every change of state made by cancel, confirm, finish, reschedule  *)
(* or expire is one of the transitions of the state machine, or confirmed  *)
(* to unconfirmed by reschedule, and a booking in a terminal state keeps   *)
(* its state.                                                              *)
C17_Body ==
    last'.op \in {"cancel", "cancel_with_reason", "confirm", "finish",
                  "reschedule", "expire"} =>
        /\ After.state # Before.state =>
               \/ <<Before.state, After.state>> \in Transitions
               \/ /\ last'.op = "reschedule"
                  /\ Before.state = STATE_CONFIRMED
                  /\ After.state = STATE_UNCONFIRMED
        /\ Before.state \in TerminalStates => After.state = Before.state

C17_OnlyListedTransitions == [][C17_Body]_vars

(* C18: confirm(time) returns only when time is one of the requested times *)
(* and the editor is the assignee, if there is one; the booking is then    *)
(* confirmed with time as its only requested time and no assignee.  When   *)
(* it raises, state, requested times and assignee are as before.           *)
C18_Body ==
    last'.op = "confirm" =>
        IF last'.err = "none"
        THEN /\ last'.arg[1] \in get_requested_times(Before)
             /\ Before.assignee # None => last'.editor = Before.assignee
             /\ After.state = STATE_CONFIRMED
             /\ After.requested_time_1 = last'.arg[1]
             /\ After.requested_time_2 = None
             /\ After.assignee = None
        ELSE After = Before

C18_Confirm == [][C18_Body]_vars

(* confirm has returned for the schedule and time 4, on a booking that     *)
(* was created with another first time and the schedule as assignee.       *)
C18_Witness ==
    /\ last.op = "confirm"
    /\ last.err = "none"
    /\ last.editor = schedule
    /\ bookings[last.who].state = STATE_CONFIRMED
    /\ bookings[last.who].requested_time_1 = 4
    /\ bookings[last.who].requested_time_1 # bookings[12].requested_time_1
    /\ bookings[12].assignee = schedule

(* C19: reschedule with one or two times that returns, on an unconfirmed   *)
(* or confirmed booking, leaves it unconfirmed, with exactly the given     *)
(* times as its requested times and the party other than the editor as     *)
(* assignee.                                                               *)
C19_Body ==
    (/\ last'.op = "reschedule"
     /\ last'.err = "none"
     /\ Len(last'.arg) \in {1, 2}
     /\ Before.state \in {STATE_UNCONFIRMED, STATE_CONFIRMED}) =>
        /\ After.state = STATE_UNCONFIRMED
        /\ get_requested_times(After)
               = {last'.arg[i] : i \in 1..Len(last'.arg)}
        /\ After.assignee = IF last'.editor = guest THEN schedule ELSE guest

C19_Reschedule == [][C19_Body]_vars

-----------------------------------------------------------------------------
(* TimeSpan.merge_spans (time_span.py) *)

RECURSIVE MergeLoop(_, _, _, _, _)
MergeLoop(it_sort, i, last_start, last_end, result) ==
    IF i > Len(it_sort)
    THEN Append(result, TimeSpan(last_start, last_end))
    ELSE IF it_sort[i].start > last_end
    THEN MergeLoop(it_sort, i + 1, it_sort[i].start, it_sort[i].end,
                   Append(result, TimeSpan(last_start, last_end)))
    ELSE MergeLoop(it_sort, i + 1, last_start, it_sort[i].end, result)

MergeSorted(it_sort) ==
    IF it_sort = <<>> THEN <<>>
    ELSE MergeLoop(it_sort, 2, it_sort[1].start, it_sort[1].end, <<>>)

merge_spans(spans) == MergeSorted(start_sorted(spans))

(* The lists of at most MaxLen real spans with bounds in 0..MaxSpanTime *)
MaxLen == 3
MaxSpanTime == 3

RealSpans ==
    {sp \in {TimeSpan(a, b) : a \in 0..MaxSpanTime, b \in 0..MaxSpanTime} :
        is_real(sp)}

SpanLists == UNION {[1..n -> RealSpans] : n \in 0..MaxLen}

(* The record of a call of merge_spans: its argument and its result *)
MergeCall(op, spans, result) ==
    [op |-> op, who |-> 0, err |-> "none", row |-> NoBooking,
     pol |-> DefaultPolicy, spans |-> spans, result |-> result]

InitMerge ==
    /\ avails = [a \in AvailsB |-> RuleB]
    /\ occs = {}
    /\ slots = {}
    /\ bookings = [b \in BookingIds |-> NoBooking]
    /\ \E spans \in SpanLists : last = MergeCall("spans", spans, <<>>)

MergeSpans ==
    /\ last.op = "spans"
    /\ last' = MergeCall("merge_spans", last.spans, merge_spans(last.spans))
    /\ UNCHANGED <<avails, occs, slots, bookings>>

NextMerge == MergeSpans

SpecMerge == InitMerge /\ [][NextMerge]_vars

SeqRange(seq) == {seq[i] : i \in 1..Len(seq)}

(* C20: the result of merge_spans is sorted by start, its spans are        *)
(* pairwise disjoint, and it covers exactly the instants the given spans   *)
(* cover.                                                                  *)
C20_MergeSpans ==
    last.op = "merge_spans" =>
        /\ \A i, j \in 1..Len(last.result) :
              i < j => /\ last.result[i].start <= last.result[j].start
                       /\ ~overlaps(last.result[i], last.result[j])
        /\ CellsOf(SeqRange(last.result)) = CellsOf(SeqRange(last.spans))

-----------------------------------------------------------------------------
(* The orderings of a list *)
Reordered(seq) ==
    {[i \in 1..Len(seq) |-> seq[f[i]]] : f \in Permutations(1..Len(seq))}

(* C21: merging the result of merge_spans again gives the same result, and *)
(* every ordering of the given list gives the same result.                 *)
C21_MergeIdempotentAnyOrder ==
    last.op = "merge_spans" =>
        /\ merge_spans(last.result) = last.result
        /\ \A L \in Reordered(last.spans) : merge_spans(L) = last.result

-----------------------------------------------------------------------------
(* AbstractTimeSpan.connects on pairs of real spans *)

ConnectSpans ==
    {sp \in {TimeSpan(a, b) : a \in 0..(MaxSpanTime + 1),
                              b \in 0..(MaxSpanTime + 1)} : is_real(sp)}

InitConnects ==
    /\ avails = [a \in AvailsB |-> RuleB]
    /\ occs = {}
    /\ slots = {}
    /\ bookings = [b \in BookingIds |-> NoBooking]
    /\ \E a \in ConnectSpans, b \in ConnectSpans :
          last = MergeCall("pair", <<a, b>>, FALSE)

(* a.connects(b) *)
Connects ==
    /\ last.op = "pair"
    /\ last' = MergeCall("connects", last.spans,
                         connects(last.spans[1], last.spans[2]))
    /\ UNCHANGED <<avails, occs, slots, bookings>>

NextConnects == Connects

SpecConnects == InitConnects /\ [][NextConnects]_vars

(* C22: a.connects(b) is true exactly when b starts no later than a ends   *)
(* and b ends no earlier than a starts: true for overlapping and touching  *)
(* spans, false for spans with a gap between them.                         *)
C22_Connects ==
    last.op = "connects" =>
        (last.result <=> (/\ last.spans[2].start <= last.spans[1].end
                          /\ last.spans[2].end >= last.spans[1].start))

-----------------------------------------------------------------------------
(* The free-time sweep, get_free_times(subject, start, end).  Its code is  *)
(* not part of django_agenda/models.py as given; it is written here from   *)
(* the description of the sweep: the subject's occurrence spans that       *)
(* intersect the window are merged with merge_spans and clipped to the     *)
(* window, and each busy slot of the subject that intersects the window,   *)
(* in order of start, is subtracted from the list.                         *)

(* span minus busy, as a list: nothing when busy covers the span, two      *)
(* pieces when it is strictly inside, the rest when it overlaps an edge.   *)
subtract_busy_no_split(span, busy) ==
    IF ~overlaps(span, busy) THEN <<span>>
    ELSE IF busy.start <= span.start /\ busy.end >= span.end THEN <<>>
    ELSE IF busy.start <= span.start
    THEN <<TimeSpan(busy.end, span.end)>>
    ELSE <<TimeSpan(span.start, busy.start)>>

subtract_busy(span, busy) ==
    IF ~overlaps(span, busy) THEN <<span>>
    ELSE IF busy.start <= span.start /\ busy.end >= span.end THEN <<>>
    ELSE IF busy.start > span.start /\ busy.end < span.end
    THEN <<TimeSpan(span.start, busy.start), TimeSpan(busy.end, span.end)>>
    ELSE IF busy.start <= span.start
    THEN <<TimeSpan(busy.end, span.end)>>
    ELSE <<TimeSpan(span.start, busy.start)>>

RECURSIVE SubtractFromAll(_, _)
SubtractFromAll(spans, busy) ==
    IF spans = <<>> THEN <<>>
    ELSE subtract_busy(Head(spans), busy) \o SubtractFromAll(Tail(spans), busy)

RECURSIVE SubtractAll(_, _, _)
SubtractAll(spans, busy_slots, i) ==
    IF i > Len(busy_slots) THEN spans
    ELSE SubtractAll(SubtractFromAll(spans, busy_slots[i]), busy_slots, i + 1)

ClipAll(spans, w) ==
    [i \in 1..Len(spans) |-> TimeSpan(Max(spans[i].start, w.start),
                                      Min(spans[i].end, w.end))]

(* The occurrence spans of the subject that intersect the window *)
OccurrenceSpans(O, subj, w) ==
    {o \in O : SubjectOf(o.av) = subj /\ overlaps(o, w)}

(* The sweep over the occurrence spans as the query returned them *)
free_times(S, occ_spans, subj, w) ==
    IF occ_spans = <<>> THEN <<>>
    ELSE SubtractAll(ClipAll(merge_spans(occ_spans), w),
                     SortByStart({s \in S : s.subj = subj /\ s.busy
                                               /\ overlaps(s, w)}), 1)

(* The orders in which a query without order_by may return the occurrences *)
OccurrenceLists(O, subj, w) ==
    {[i \in 1..Len(L) |-> TimeSpan(L[i].start, L[i].end)] :
        L \in Reordered(SortOccs(OccurrenceSpans(O, subj, w)))}

MaxBusy == 2

(* TimeSlot.objects.create(start, end, busy=True): a busy slot written by  *)
(* the application itself, at most MaxBusy of them.                        *)
CreateBusySlot(subj, span) ==
    /\ Cardinality({s \in slots : s.busy}) < MaxBusy
    /\ slots' = Compact(slots \cup
                   {TimeSlot(MaxId(slots) + 1, subj, span.start, span.end,
                             TRUE, NoSlot)})
    /\ last' = MergeCall("create_busy", <<span>>, <<>>)
    /\ UNCHANGED <<avails, occs, bookings>>

(* get_free_times(subject, w.start, w.end); the record keeps the window    *)
(* and, after it, the occurrence spans in the order of the query.          *)
GetFreeTimes(subj, w) ==
    /\ last.op # "free_times"
    /\ \E L \in OccurrenceLists(occs, subj, w) :
          last' = MergeCall("free_times", <<w>> \o L,
                            free_times(slots, L, subj, w))
    /\ UNCHANGED <<avails, occs, slots, bookings>>

FreeAvails == {11, 12}
FreeRules ==
    {[starts |-> {0}, dur |-> MaxTime], [starts |-> {0}, dur |-> 2],
     [starts |-> {4}, dur |-> 2]}
BusySpans == {TimeSpan(2, 3), TimeSpan(0, 1), TimeSpan(4, MaxTime + 1),
              TimeSpan(0, MaxTime), TimeSpan(MaxTime + 1, MaxTime + 2)}
FreeWindows == {Horizon, TimeSpan(1, MaxTime - 1)}

InitFree ==
    /\ avails = [a \in AvailIds |-> NoRule]
    /\ occs = {}
    /\ slots = {}
    /\ bookings = [b \in BookingIds |-> NoBooking]
    /\ last = MergeCall("init", <<>>, <<>>)

NextFree ==
    \/ \E a \in FreeAvails, r \in FreeRules : SaveAvailability(a, r)
    \/ \E a \in FreeAvails : DeleteAvailability(a)
    \/ \E sp \in BusySpans : CreateBusySlot(1, sp)
    \/ \E w \in FreeWindows : GetFreeTimes(1, w)

SpecFree == InitFree /\ [][NextFree]_vars

(* The busy slots of the subject of the sweep *)
BusySlots == {s \in slots : s.subj = 1 /\ s.busy}

(* The result of the same sweep with the busy slot b left out *)
FreeWithout(b) ==
    SeqRange(free_times(slots \ {b}, Tail(last.spans), 1, Head(last.spans)))

(* What a busy slot b does to a span s that is free without it *)
BusyCase(R, s, b) ==
    /\ (s.start < b.start /\ b.end < s.end) =>
           /\ TimeSpan(s.start, b.start) \in R
           /\ TimeSpan(b.end, s.end) \in R
           /\ s \notin R
    /\ (b.start <= s.start /\ s.start < b.end /\ b.end < s.end) =>
           (TimeSpan(b.end, s.end) \in R /\ s \notin R)
    /\ (s.start < b.start /\ b.start < s.end /\ s.end <= b.end) =>
           (TimeSpan(s.start, b.start) \in R /\ s \notin R)
    /\ (b.start <= s.start /\ s.end <= b.end) =>
           \A r \in R : ~overlaps(r, s)

(* C23: the free times of a subject over a window are real spans in order  *)
(* of start, pairwise disjoint, inside the window, inside the subject's    *)
(* occurrences and clear of every busy slot of the subject; a busy slot    *)
(* strictly inside a free span splits it, one over an edge truncates it,   *)
(* one that covers it removes it, and one outside the window changes       *)
(* nothing.                                                                *)
C23_FreeTimes ==
    last.op = "free_times" =>
        LET w == Head(last.spans)
            R == last.result
        IN /\ \A i \in 1..Len(R) :
                 /\ is_real(R[i])
                 /\ contains(w, R[i])
                 /\ CellsOf({R[i]}) \subseteq
                        CellsOf({o \in occs : SubjectOf(o.av) = 1})
                 /\ \A b \in BusySlots : ~overlaps(R[i], b)
                 /\ \A j \in 1..Len(R) : i < j => R[i].end <= R[j].start
           /\ \A b \in BusySlots :
                 /\ \A s \in FreeWithout(b) : BusyCase(SeqRange(R), s, b)
                 /\ ~overlaps(b, w) => SeqRange(R) = FreeWithout(b)

(* A sweep over a window narrower than the occurrence has returned two     *)
(* spans, split by a busy slot inside the window, with another busy slot   *)
(* outside the window.                                                     *)
C23_Witness ==
    /\ last.op = "free_times"
    /\ Head(last.spans) = TimeSpan(1, MaxTime - 1)
    /\ last.result = <<TimeSpan(1, 2), TimeSpan(3, MaxTime - 1)>>
    /\ \E b \in BusySlots : ~overlaps(b, Head(last.spans))
    /\ \E b \in BusySlots : time_equals(b, TimeSpan(2, 3))


(***************************************************************************)
(* Two saves in flight.  save() wraps its work in transaction.atomic() and *)
(* takes no lock: the rows a save reads are the rows committed when it     *)
(* reads them, and its inserts, updates and deletes reach the table when   *)
(* its transaction commits.  An open transaction is kept in the booking's  *)
(* txn field as the writes save() computed from the rows it read: the keys *)
(* it deletes, the rows it updates and the rows it inserts.  Keys are not  *)
(* compacted here, so a key read by one save names the same row later.     *)
(***************************************************************************)
NoTxn == [open |-> FALSE, del |-> {}, upd |-> {}, new |-> {}]

IdleBooking ==
    [saved |-> FALSE, state |-> STATE_UNCONFIRMED, times |-> <<>>,
     padding |-> 0, txn |-> NoTxn]

(* The writes that lead from the rows read to the rows save() computed *)
Writes(read, result) ==
    [open |-> TRUE,
     del |-> SlotIds(read) \ SlotIds(result),
     upd |-> {s \in result : s.id \in SlotIds(read) /\ s \notin read},
     new |-> {s \in result : s.id \notin SlotIds(read)}]

RECURSIVE SaveSlots(_, _)
SaveSlots(S, objs) ==
    IF objs = {} THEN S
    ELSE LET o == CHOOSE x \in objs : \A y \in objs : x.id <= y.id
         IN SaveSlots(SaveSlot(S, o), objs \ {o})

(* The inserted rows take the next free keys of the table as it is when    *)
(* they are written; a delete of a key that is gone deletes nothing.       *)
Committed(S, txn) ==
    LET seq == SortSlots(txn.new)
        fresh == {s.id : s \in txn.new}
        nid(i) == IF i \in fresh THEN MaxId(S) + RankOf(seq, i) ELSE i
        kept == SaveSlots(DeleteSlots(S, txn.del \cap SlotIds(S)),
                          {s \in txn.upd : s.id \in SlotIds(S)})
    IN kept \cup {[s EXCEPT !.id = nid(s.id), !.pf = nid(s.pf)] : s \in txn.new}

(* save() up to the point where its transaction is about to commit *)
BeginSave(b, times, p) ==
    /\ ~bookings[b].saved
    /\ ~bookings[b].txn.open
    /\ LET bk == [IdleBooking EXCEPT !.times = times, !.padding = p]
           r == save(slots, occs, b, bk, FALSE, DefaultPolicy)
       IN /\ last' = OpRecord("begin", b, r.err, bk, DefaultPolicy)
          /\ IF r.err = "none"
             THEN bookings' = [bookings EXCEPT
                                  ![b] = [bk EXCEPT !.txn = Writes(slots, r.slots)]]
             ELSE UNCHANGED bookings
    /\ UNCHANGED <<avails, occs, slots>>

(* The transaction commits *)
CommitSave(b) ==
    /\ bookings[b].txn.open
    /\ slots' = Committed(slots, bookings[b].txn)
    /\ bookings' = [bookings EXCEPT ![b] = [@ EXCEPT !.saved = TRUE, !.txn = NoTxn]]
    /\ last' = OpRecord("commit", b, "none", bookings[b], DefaultPolicy)
    /\ UNCHANGED <<avails, occs>>

TimesC == {<<1>>, <<2>>, <<3>>}
PadsC == {0, MaxPad}

InitConcurrent ==
    /\ avails = [a \in AvailsB |-> RuleB]
    /\ occs = {OccB}
    /\ slots = {[TimeSlot(1, SubjectOf(11), 0, MaxTime, FALSE, NoSlot)
                    EXCEPT !.aos = {OccB}]}
    /\ bookings = [b \in BookingIds |-> IdleBooking]
    /\ last = Started

NextConcurrent ==
    \/ \E b \in BookingIds, t \in TimesC, p \in PadsC : BeginSave(b, t, p)
    \/ \E b \in BookingIds : CommitSave(b)

SpecConcurrent == InitConcurrent /\ [][NextConcurrent]_vars

(* The saved bookings that hold a core slot over some instant of the span *)
Holders(span) ==
    {b \in BookingIds :
        /\ bookings[b].saved
        /\ \E s \in slots : b \in s.bks /\ s.pf = NoSlot /\ overlaps(s, span)}

(* C24: of two saves of one subject whose core spans overlap, run with     *)
(* their steps interleaved, at most one succeeds: no instant is held by    *)
(* the core slots of two bookings, and the subject's slots do not overlap. *)
C24_ConcurrentSaves ==
    /\ \A x \in slots : Cardinality(Holders(x)) <= 1
    /\ \A x \in slots, y \in slots :
           (x.id # y.id /\ x.subj = y.subj /\ x.pf = NoSlot /\ y.pf = NoSlot)
               => ~overlaps(x, y)


(***************************************************************************)
(* Two subjects.  Subject 1 owns availability 11 and booking 11, subject 2 *)
(* availability 21 and booking 21.                                         *)
(***************************************************************************)
Subjects == {1, 2}
SubjectAvails == {11, 21}
SubjectBookings == {11, 21}
SubjectRules == {[starts |-> {0}, dur |-> MaxTime]}
SubjectTimes == {<<1>>, <<3>>}
SubjectPads == {0, MaxPad}

InitSubjects ==
    /\ avails = [a \in SubjectAvails |-> NoRule]
    /\ occs = {}
    /\ slots = {}
    /\ bookings = [b \in SubjectBookings |-> NoBooking]
    /\ last = Started

NextSubjects ==
    \/ \E a \in SubjectAvails, r \in SubjectRules : SaveAvailability(a, r)
    \/ \E a \in SubjectAvails : DeleteAvailability(a)
    \/ \E b \in SubjectBookings, t \in SubjectTimes, p \in SubjectPads :
          RequestBooking(b, t, p, DefaultPolicy)
    \/ \E b \in SubjectBookings : SetState(b, STATE_CANCELED, DefaultPolicy)
    \/ \E b \in SubjectBookings, t \in SubjectTimes : Reschedule(b, t, DefaultPolicy)
    \/ \E b \in SubjectBookings, p \in SubjectPads : ChangePadding(b, p)

SpecSubjects == InitSubjects /\ [][NextSubjects]_vars

(* What is stored for a subject: its slots, keyed in their order, its      *)
(* occurrences, its rules and its bookings.                                *)
StoredFor(y, A, O, S, B) ==
    [slots |-> Compact({s \in S : s.subj = y}),
     occs |-> {o \in O : SubjectOf(o.av) = y},
     avails |-> [a \in {x \in DOMAIN A : SubjectOf(x) = y} |-> A[a]],
     bookings |-> [b \in {x \in DOMAIN B : SubjectOf(x) = y} |-> B[b]]]

C25_Body ==
    \A y \in Subjects :
        SubjectOf(last'.who) # y
            => StoredFor(y, avails', occs', slots', bookings')
                   = StoredFor(y, avails, occs, slots, bookings)

(* C25: an operation for one subject (a reconciliation, a deleted          *)
(* availability, a booking save, a changed padding) leaves the slots, the  *)
(* occurrences and the associations of every other subject as they were.   *)
C25_SubjectsIsolated == [][C25_Body]_vars

(* A booking of subject 1 was just saved into slots while subject 2 has    *)
(* a booked slot with padding of its own.                                  *)
C25_Witness ==
    /\ last.op = "save" /\ last.err = "none" /\ last.who = 11
    /\ \E s \in slots : s.subj = 1 /\ 11 \in s.bks
    /\ \E s \in slots : s.subj = 2 /\ 21 \in s.bks
    /\ \E s \in slots : s.subj = 2 /\ s.pf # NoSlot


(* C26: every stored slot has start < end after any sequence of            *)
(* operations, bookings into unscheduled time and padding changes          *)
(* included: no slot of no length and no inverted slot is stored.          *)
C26_RealSlots == \A s \in slots : s.start < s.end


(* The core slots a booking is linked to and their padding slots, as       *)
(* bounds, flags and links.                                                *)
SlotsOfBooking(S, b) ==
    Shapes(S, {s \in S : \/ b \in s.bks
                         \/ (s.pf # NoSlot /\ b \in SlotById(S, s.pf).bks)})

C27_Body ==
    last'.op = "padding_changed" =>
        \A o \in BookingIds \ {last'.who} :
            SlotsOfBooking(slots', o) = SlotsOfBooking(slots, o)

(* C27: _padding_changed of one booking changes the bounds of no core or   *)
(* padding slot of another booking of the subject and deletes none.        *)
C27_OtherBookingsKept == [][C27_Body]_vars


(***************************************************************************)
(* Padding changes: two bookings of one subject in the occurrence          *)
(* [0, MaxTime), whose padding is changed after they are saved.            *)
(***************************************************************************)
TimesP == {<<0>>, <<1>>, <<MaxTime - 2>>}

NextPadding ==
    \/ \E b \in BookingIds, t \in TimesP, p \in Pads :
          RequestBooking(b, t, p, DefaultPolicy)
    \/ \E b \in BookingIds : SetState(b, STATE_CANCELED, DefaultPolicy)
    \/ \E b \in BookingIds, p \in Pads : ChangePadding(b, p)

SpecPadding == InitBook /\ [][NextPadding]_vars


Bounds(X) == {TimeSpan(x.start, x.end) : x \in X}

(* The padding slots of the core slots a booking is linked to *)
PaddingSlots(S, b) == {x \in S : x.pf # NoSlot /\ b \in SlotById(S, x.pf).bks}

(* Each core slot of the booking has exactly its two padding slots of      *)
(* length p, and none when p is 0.                                         *)
PaddedExactly(S, b, p) ==
    \A c \in {s \in S : b \in s.bks} :
        /\ Bounds(PaddingOf(S, c)) =
               IF p = 0 THEN {}
               ELSE {TimeSpan(c.start - p, c.start), TimeSpan(c.end, c.end + p)}
        /\ Cardinality(PaddingOf(S, c)) = IF p = 0 THEN 0 ELSE 2

(* No free unbooked slot overlaps a padding slot of the booking *)
PaddingClear(S, b) ==
    \A f \in S, x \in PaddingSlots(S, b) : IsFree(f) => ~overlaps(f, x)

(* The instants inside an occurrence that the booking's padding slots held *)
(* before and hold no more are in a free slot again.                       *)
ReleasedFree(S, T, O, b) ==
    ((CellsOf(PaddingSlots(S, b)) \ CellsOf(PaddingSlots(T, b))) \cap CellsOf(O))
        \subseteq CellsOf({f \in T : IsFree(f)})

C28_Body ==
    last'.op = "padding_changed" =>
        /\ PaddedExactly(slots', last'.who, bookings'[last'.who].padding)
        /\ PaddingClear(slots', last'.who)
        /\ ReleasedFree(slots, slots', occs, last'.who)

(* C28: after _padding_changed with padding p every core slot [s, e) of    *)
(* the booking has exactly the padding slots [s - p, s) and [e, e + p),    *)
(* none when p is 0; no free unbooked slot overlaps a padding slot; and    *)
(* the time a shrunken padding slot released inside an occurrence is       *)
(* covered by a free slot again.                                           *)
C28_PaddingChanged == [][C28_Body]_vars


(***************************************************************************)
(* regen of a stored occurrence, as the post-save hook of an occurrence    *)
(* and clear_slots call it, among availabilities and bookings of one       *)
(* subject.                                                                *)
(***************************************************************************)
Regen(o) ==
    /\ o \in occs
    /\ slots' = Compact(regen(Store(slots), o).slots)
    /\ last' = [OpRecord("regen", o.av, "none", NoBooking, DefaultPolicy)
                   EXCEPT !.row = o]
    /\ UNCHANGED <<avails, occs, bookings>>

(* AvailabilityOccurrence.objects.create(): the post-save hook of the new  *)
(* occurrence calls regen.                                                 *)
CreateOccurrence(o) ==
    /\ o \notin occs
    /\ occs' = occs \cup {o}
    /\ slots' = Compact(regen(Store(slots), o).slots)
    /\ last' = [OpRecord("regen", o.av, "none", NoBooking, DefaultPolicy)
                   EXCEPT !.row = o]
    /\ UNCHANGED <<avails, bookings>>

RegenAvails == {11, 12}
RegenRules == {[starts |-> {0}, dur |-> 4], [starts |-> {2}, dur |-> 4],
               [starts |-> {4}, dur |-> 2]}
RegenTimes == {<<1>>, <<3>>}
RegenOccs ==
    UNION {get_recurrences(a, r, Horizon) : a \in RegenAvails, r \in RegenRules}
NewOccs == {o \in RegenOccs : o.av = 12}

InitRegen ==
    /\ avails = [a \in RegenAvails |-> NoRule]
    /\ occs = {}
    /\ slots = {}
    /\ bookings = [b \in BookingIds |-> NoBooking]
    /\ last = Started

NextRegen ==
    \/ \E r \in RegenRules : SaveAvailability(11, r)
    \/ DeleteAvailability(11)
    \/ \E t \in RegenTimes, p \in Pads : RequestBooking(11, t, p, DefaultPolicy)
    \/ SetState(11, STATE_CANCELED, DefaultPolicy)
    \/ \E o \in RegenOccs : Regen(o)
    \/ \E o \in NewOccs : CreateOccurrence(o)

SpecRegen == InitRegen /\ [][NextRegen]_vars

FreeSlots(S) == {s \in S : IsFree(s)}

(* The free slots that touch or overlap the occurrence *)
FreeNear(S, o) == {s \in FreeSlots(S) : s.end >= o.start /\ s.start <= o.end}

(* Every instant of the occurrence is in a busy or booked slot or in a     *)
(* free slot the occurrence contributes to.                                *)
SpanCovered(S, o) ==
    \A t \in CellsOf({o}) :
        \/ t \in CellsOf(S \ FreeSlots(S))
        \/ \E f \in FreeSlots(S) : f.start <= t /\ t < f.end /\ o \in f.aos

(* The free slots that touch or overlap the occurrence do not touch or     *)
(* overlap each other.                                                     *)
FreeMerged(S, o) ==
    \A x \in FreeNear(S, o), y \in FreeNear(S, o) :
        x.id # y.id => (x.end < y.start \/ y.end < x.start)

(* Each free slot T holds near the occurrence is the bounding union of     *)
(* the free slots of S it took in and of the occurrence's free time, with  *)
(* their contributors and the occurrence's.                                *)
UnionKept(S, T, o) ==
    /\ \A f \in FreeNear(S, o) :
           \E g \in FreeSlots(T) :
               g.start <= f.start /\ f.end <= g.end /\ f.aos \subseteq g.aos
    /\ \A g \in FreeNear(T, o) :
           LET in == {f \in FreeSlots(S) : g.start <= f.start /\ f.end <= g.end}
           IN /\ g.aos \subseteq (UNION {f.aos : f \in in}) \cup {o}
              /\ CellsOf({g}) \subseteq CellsOf(in) \cup CellsOf({o})

C29_Body ==
    last'.op = "regen" =>
        /\ Shapes(slots', slots' \ FreeSlots(slots'))
               = Shapes(slots, slots \ FreeSlots(slots))
        /\ SpanCovered(slots', last'.row)
        /\ FreeMerged(slots', last'.row)
        /\ UnionKept(slots, slots', last'.row)

Orphaned(S, o) == {s \in S : o \in s.aos /\ ~overlaps(s, o)}

C30_Body == last'.op = "regen" => Orphaned(slots', last'.row) = {}

(* C30: after regen of an occurrence no slot that lists the occurrence as  *)
(* a contributor lies wholly outside the occurrence's span.                *)
C30_NoOrphanedSlots == [][C30_Body]_vars


(* Each free slot of T lies in a free slot of S with the same              *)
(* contributors: a remainder carries the contributors of the slot it was   *)
(* cut from.                                                               *)
RemaindersInherit(S, T) ==
    \A g \in FreeSlots(T) :
        \E f \in FreeSlots(S) :
            f.start <= g.start /\ g.end <= f.end /\ g.aos = f.aos

C31_Body ==
    /\ (last'.op = "save" /\ last'.err = "none" /\ ~bookings[last'.who].saved)
           => RemaindersInherit(slots, slots')
    /\ last'.op = "delete_availability"
           => CellsOf(FreeSlots(slots')) \subseteq CellsOf(occs')

(* C31: when a booking is carved out of free slots, each remainder slot    *)
(* carries exactly the contributing occurrences of the free slot it was    *)
(* cut from, and the deletion of occurrences afterwards leaves no free     *)
(* slot over time that no occurrence covers.                               *)
C31_RemaindersInherit == [][C31_Body]_vars

(* A booking was just carved out of a free slot fed by two occurrences,    *)
(* leaving a remainder on each side.                                       *)
C31_Witness ==
    /\ last.op = "save" /\ last.err = "none"
    /\ \E c \in slots : last.who \in c.bks /\
          \E x \in FreeSlots(slots), y \in FreeSlots(slots) :
              /\ x.end <= c.start /\ c.end <= y.start
              /\ Cardinality(x.aos) = 2 /\ x.aos = y.aos


(* C32: at every operation boundary a slot has contributing occurrences    *)
(* exactly when it is free and linked to no booking: core and padding      *)
(* slots have none, and every free unbooked slot has at least one.         *)
C32_ContributorsIffFree == \A s \in slots : (s.aos # {}) <=> IsFree(s)


(* A booking holds a core slot with padding slots beside free slots that   *)
(* two occurrences feed.                                                   *)
C32_Witness ==
    /\ \E c \in slots : c.bks # {} /\ PaddingOf(slots, c) # {}
    /\ \E f \in FreeSlots(slots) : Cardinality(f.aos) > 1
    /\ last.op = "regen"


(* The slot is still there with its bounds, linked to the bookings *)
KeptFor(S, s, bs) ==
    \E x \in S : x.start = s.start /\ x.end = s.end /\ bs \subseteq x.bks

C33_Body ==
    last'.op = "save" =>
        \A s \in slots :
            (s.bks \ {last'.who}) # {} => KeptFor(slots', s, s.bks \ {last'.who})

(* C33: a slot that a booking other than the one being saved is linked to  *)
(* is neither deleted nor resized by the save and stays linked to that     *)
(* booking, whether the saved booking releases the slot or not: a booked   *)
(* slot goes only when its last booking releases it.                       *)
C33_SharedSlotKept == [][C33_Body]_vars


(* A save of a saved, reserved booking that stays reserved with other      *)
(* requested times.                                                        *)
Rescheduling ==
    /\ last'.op = "save"
    /\ bookings[last'.who].saved
    /\ bookings[last'.who].state \in RESERVED_STATES
    /\ last'.row.state \in RESERVED_STATES
    /\ last'.row.times # bookings[last'.who].times

(* Every slot in the way of a padded span to place is free and unbooked    *)
(* or one of the booking's own core and padding slots, and the core spans  *)
(* lie in the subject's occurrences.                                       *)
OnlyOwnInTheWay ==
    \A sp \in AddSpans(last'.who, last'.row) :
        /\ \A s \in PaddedOverlap(slots, SubjectOf(last'.who), sp) :
               IsFree(s) \/ s \in OwnSlots(last'.who)
        /\ CellsOf({sp}) \subseteq CellsOf(occs)

C34_Body == (Rescheduling /\ OnlyOwnInTheWay) => last'.err = "none"

(* C34: a reschedule to times whose padded spans conflict with no slot     *)
(* but the booking's own current core and padding slots succeeds.          *)
C34_RescheduleOverOwnSlots == [][C34_Body]_vars


(* The core and padding slots of a booking in a store *)
OwnIn(S, b) ==
    {s \in S : b \in s.bks \/ (s.pf # NoSlot /\ b \in SlotById(S, s.pf).bks)}

(* t is s as it was, or s trimmed to a real span inside its old bounds     *)
(* that is clear of every padded span placed.                              *)
TrimOf(t, s, spans) ==
    /\ t.busy = s.busy /\ t.bks = s.bks /\ t.aos = s.aos
    /\ s.start <= t.start /\ t.start < t.end /\ t.end <= s.end
    /\ (t.start # s.start \/ t.end # s.end) =>
           \A sp \in spans : t.end <= sp.padded_start \/ t.start >= sp.padded_end

C35_Body ==
    (OffSchedule /\ last'.pol.unscheduled /\ last'.err = "none") =>
        /\ \A t \in slots' \ OwnIn(slots', last'.who) :
               \E s \in slots : TrimOf(t, s, AddSpans(last'.who, last'.row))
        /\ \A o \in BookingIds \ {last'.who} :
               SlotsOfBooking(slots', o) = SlotsOfBooking(slots, o)

(* C35: when a booking is force-created in unscheduled time, every other   *)
(* slot is afterwards as it was, deleted, or trimmed to a part of its old  *)
(* bounds outside the padded span; no slot is moved or enlarged and the    *)
(* slots of other bookings are as they were.                               *)
C35_ForcedPlacementTrims == [][C35_Body]_vars


(* A first save, without the book-unscheduled policy, of a booking one of  *)
(* whose core spans has an instant outside the free unbooked slots.        *)
NotFullyFree ==
    /\ last'.op = "save"
    /\ ~bookings[last'.who].saved
    /\ ~last'.pol.unscheduled
    /\ \E sp \in AddSpans(last'.who, last'.row) :
           ~(CellsOf({sp}) \subseteq CellsOf(FreeSlots(slots)))

C36_Body == NotFullyFree => IsTimeUnavailable(last'.err)

(* C36: without the book-unscheduled policy a save succeeds only if every  *)
(* instant of its core spans lies in free unbooked slots of the subject;   *)
(* a core span only partly covered by free slots is refused with           *)
(* TimeUnavailableError.                                                   *)
C36_OnlyInFreeTime == [][C36_Body]_vars


(***************************************************************************)
(* Booking saves under the default policies only: booked slots are busy    *)
(* and no party may book over a booking.                                   *)
(***************************************************************************)
TimesD == {<<0>>, <<1>>, <<2>>, <<3>>, <<1, MaxTime - 2>>}

NextDefault ==
    \/ \E b \in BookingIds, t \in TimesD, p \in Pads :
          RequestBooking(b, t, p, DefaultPolicy)
    \/ \E b \in BookingIds, st \in TargetsB : SetState(b, st, DefaultPolicy)
    \/ \E b \in BookingIds, t \in TimesD : Reschedule(b, t, DefaultPolicy)

SpecDefault == InitBook /\ [][NextDefault]_vars

(* The bookings a slot belongs to, as a core slot or as a padding slot *)
BookingsOf(S, s) == IF s.pf = NoSlot THEN s.bks ELSE SlotById(S, s.pf).bks

(* C37: under the default policies, after any sequence of booking saves    *)
(* with paddings that differ from booking to booking, no core slot of a    *)
(* booking is overlapped by the core slot or a padding slot of another     *)
(* booking.                                                                *)
C37_CoresKeptClear ==
    \A c \in slots, x \in slots :
        (c.bks # {} /\ x.id # c.id /\ overlaps(c, x))
            => BookingsOf(slots, x) \subseteq c.bks


(* The occurrences of the availability that lie wholly outside the window  *)
(* and that its rule still yields.                                         *)
OutsideWindow(a, w) ==
    {o \in occs : /\ o.av = a
                  /\ (o.start > w.end \/ o.end < w.start)
                  /\ o \in get_recurrences(a, avails[a], Horizon)}

C38_Body ==
    \A a \in ReconcileAvails, w \in Windows :
        RecreateOccurrences(a, w) => OutsideWindow(a, w) \subseteq occs'

(* C38: recreate_occurrences(start, end) deletes no occurrence of the      *)
(* availability that lies wholly outside [start, end] and that the rule    *)
(* still yields: reconciling one window keeps what was materialized for    *)
(* another.                                                                *)
C38_OtherWindowsKept == [][C38_Body]_vars


(* The occurrences regen may be called for: the stored ones and the ones   *)
(* about to be created.                                                    *)
Regenerable == occs \cup NewOccs

C40_Body ==
    (last'.op = "reschedule" /\ last'.err # "none") =>
        /\ After.state = Before.state
        /\ After.requested_time_1 = Before.requested_time_1
        /\ After.requested_time_2 = Before.requested_time_2
        /\ After.assignee = Before.assignee

(* C40: a reschedule call that raises (no time or more than two times, a   *)
(* state other than UNCONFIRMED and CONFIRMED, no acting party) leaves     *)
(* the booking's state, requested times and assignee as they were.         *)
C40_FailedRescheduleKeeps == [][C40_Body]_vars

=============================================================================
